---- MODULE Spec2Model ----
(***************************************************************************)
(* Verification model of the ingestion data pipeline:                      *)
(*   - the backfill coordinator (application/src/backfill_service.rs)      *)
(*     running on several workers against the Redis job-state repository   *)
(*     (infrastructure/src/state/redis.rs);                                *)
(*   - the distributed multi-window rate limiter                           *)
(*     (infrastructure/src/rate_limiter.rs).                               *)
(* Calendar days are days since the epoch, timestamps are milliseconds     *)
(* since the epoch, the workers' wall clock is in seconds.                 *)
(***************************************************************************)
EXTENDS Integers, Sequences, FiniteSets, TLC

\* ------------------------------------------------------------------------
\* Bounds of the model
\* ------------------------------------------------------------------------
MaxDay == 2          \* ranges are [1, e], 1 <= e <= MaxDay
MaxRuns == 2         \* backfill_range invocations
MaxTime == 600       \* the wall clock stops here (seconds)
TimeStep == 300      \* wall clock granularity (seconds)
MaxGapDay == 4       \* the pure date functions are applied to dates up to MaxGapDay + 1

Workers == {"w1", "w2"}
Callers == {"w1"}              \* Spec: one worker process, invoked repeatedly
JobKeys == {1}                 \* job_key = "ingest:job:<symbol>:<range.start>"
StartDay == CHOOSE d \in JobKeys : TRUE
RangeEnds == StartDay..MaxDay

\* ------------------------------------------------------------------------
\* Program constants
\* ------------------------------------------------------------------------
HEARTBEAT_TIMEOUT == 300
MsPerDay == 86400000
EndOfDayOffsetMs == 86399000

None == "none"

\* offsets (ms after midnight) of the ticks a gateway returns for one day:
\* empty day, ticks at 00:00 and 12:00, one tick at 12:00, one tick at
\* 23:59:59.500
TickBatches ==
  { << >>, <<0>>, <<0, 43200000>>, <<86399500>> }

\* ------------------------------------------------------------------------
\* Pure helpers of backfill_service.rs
\* ------------------------------------------------------------------------
start_of_day_ts(date) == date * MsPerDay

end_of_day_ts(date) == date * MsPerDay + EndOfDayOffsetMs

\* the last date of the calendar (NaiveDate::MAX); the calendar of the model
\* is scaled down to 0..MaxDate
MaxDate == MaxGapDay + 1

\* CursorExt::timestamp_to_date: DateTime::from_timestamp_millis is None for
\* a timestamp outside the calendar; << >> is None, <<d>> is Some(d)
timestamp_to_date(ts) ==
  IF ts >= 0 /\ ts < (MaxDate + 1) * MsPerDay THEN <<ts \div MsPerDay>> ELSE << >>

\* Option::unwrap_or
unwrap_or(opt, default) == IF opt = << >> THEN default ELSE opt[1]

\* variant of resume_start: the day of the cursor, whatever the range
resume_start_NoGuard(range_start, cursor) ==
  unwrap_or(timestamp_to_date(cursor), range_start)

resume_start(range_start, cursor) ==
  IF cursor < start_of_day_ts(range_start)
    THEN range_start
    ELSE unwrap_or(timestamp_to_date(cursor), range_start)

\* DateRange::new: Err(StartAfterEnd) when start > end
DateRange_new(start, end) == IF start > end THEN "StartAfterEnd" ELSE "Ok"

\* NaiveDate::checked_add_days(Days::new(1)): << >> is None, <<d>> is Some(d)
checked_add_days(date) == IF date < MaxDate THEN <<date + 1>> ELSE << >>

\* the loop of DateRange::split_by_days: the next date is computed after
\* every push, and expect() panics when there is none
RECURSIVE split_loop(_, _, _)
split_loop(current, end, result) ==
  IF ~(current <= end) THEN [panicked |-> FALSE, items |-> result]
  ELSE LET next == checked_add_days(current)
       IN IF next = << >>
            THEN [panicked |-> TRUE, items |-> Append(result, current)]
            ELSE split_loop(next[1], end, Append(result, current))

\* DateRange::split_by_days on the range <<start, end>>: whether it
\* panicked, and the start dates of the items pushed
split_by_days_run(r) == split_loop(r[1], r[2], << >>)

\* DateRange::split_by_days, as the start dates of its items in order
split_by_days(r) == split_by_days_run(r).items

SeqRange(s) == {s[i] : i \in DOMAIN s}

RECURSIVE SortedSeq(_)
SortedSeq(S) ==
  IF S = {} THEN << >>
  ELSE LET m == CHOOSE x \in S : \A y \in S : x <= y
       IN <<m>> \o SortedSeq(S \ {m})

\* the days of a list of gaps, in the order of the list
RECURSIVE GapDaysInOrder(_)
GapDaysInOrder(gaps) ==
  IF gaps = << >> THEN << >>
  ELSE split_by_days(Head(gaps)) \o GapDaysInOrder(Tail(gaps))

\* variant of plan_days_to_process: a Vec in place of the BTreeSet, so the
\* days keep the order and the repetitions of the gap list
plan_days_to_process_Unsorted(effective_start, range_end, gaps) ==
  (IF effective_start <= range_end THEN <<effective_start>> ELSE << >>)
    \o SelectSeq(GapDaysInOrder(gaps),
                 LAMBDA d : ~(d < effective_start \/ d > range_end))

\* BTreeSet of the resume day and the clipped days of every gap, iterated
\* in ascending order
plan_days_to_process(effective_start, range_end, gaps) ==
  LET first == IF effective_start <= range_end THEN {effective_start} ELSE {}
      gapDays == UNION { {d \in SeqRange(split_by_days(gaps[i])) :
                            ~(d < effective_start \/ d > range_end)} : i \in DOMAIN gaps }
  IN SortedSeq(first \cup gapDays)

\* plan_days_to_process: whether the split_by_days of a gap panicked, and
\* the planned days
plan_days_to_process_run(effective_start, range_end, gaps) ==
  [panicked |-> \E i \in DOMAIN gaps : split_by_days_run(gaps[i]).panicked,
   days |-> plan_days_to_process(effective_start, range_end, gaps)]

\* lists of gaps a detector may return (unordered, overlapping, outside the
\* requested range, running to the last date of the calendar)
GapLists ==
  { << >>, << <<1, 2>> >>, << <<2, 2>>, <<1, 1>> >>, << <<2, 3>> >>,
    << <<2, MaxDate>> >> }


\* ------------------------------------------------------------------------
\* State
\* ------------------------------------------------------------------------
VARIABLES
  jobs,     \* the job-state store: job_key -> stored JobState, or NoJob
  now,      \* wall clock (Utc::now()), seconds
  nextId,   \* source of fresh instance ids (Uuid::new_v4)
  runs,     \* number of backfill_range invocations so far
  wk,       \* per worker: position in backfill_range and its locals
  cl,       \* per repository client: the fenced setter it is executing
  ev,       \* the last repository or script operation (history variable)
  rl,       \* the rate limiter: shared store, server clock, callers
  gd,       \* a call of detect_gaps: its arguments and its result
  pf,       \* a call of a pure date function: its arguments and its result
  gw,       \* calls of the historical gateway, per caller
  hs,       \* a job hash of the store, field by field, and a client of it
  ar,       \* a call of the archive gap detector: directory, arguments, result
  sv        \* a run of the streaming IngestionService

\* variables the coordinator never touches
aux == <<cl, ev, rl, gd, pf, gw, hs, ar, sv>>

vars == <<jobs, now, nextId, runs, wk, cl, ev, rl, gd, pf, gw, hs, ar, sv>>

Running == "RUNNING"
Completed == "COMPLETED"
Failed == "FAILED"

\* JobState::new
JobStateNew(job_instance_id, status, cursor, end_time, heartbeat_at) ==
  [ status |-> status,
    job_instance_id |-> job_instance_id,
    cursor |-> cursor,
    end_time |-> end_time,
    heartbeat_at |-> heartbeat_at,
    critical_ranges |-> << >>,
    last_error_type |-> None ]

\* Option<JobState>::None, and the absence of an instance id
NoJob ==
  [ status |-> "ABSENT", job_instance_id |-> 0, cursor |-> 0, end_time |-> 0,
    heartbeat_at |-> 0, critical_ranges |-> << >>, last_error_type |-> None ]
NoId == NoJob.job_instance_id

NoOp == [kind |-> None, val |-> None]

Clients == {"c1", "c2"}
IdleClient == [pc |-> "ready", id |-> NoId, op |-> NoOp, snap |-> NoJob]
NoEv == [type |-> "other"]

IdleWorker ==
  [ pc |-> "idle", range_end |-> StartDay, tnow |-> 0, prior |-> NoJob,
    pending |-> NoJob, ctx |-> NoJob, effective_start |-> 0,
    op |-> NoOp, snap |-> NoJob, todo |-> << >>,
    total_ticks |-> 0, days_processed |-> 0, failed_days |-> << >>,
    job_failed |-> FALSE, outcome |-> None, fetched |-> << >>,
    final_status |-> None,
    \* history of the run, read by the properties only
    planned |-> << >>, skipped |-> << >>, saved |-> << >>,
    last_write |-> NoOp, lost |-> FALSE, after_cancel |-> FALSE,
    calls |-> << >>, ticks |-> << >>, prev_failed |-> {}, missing |-> {} ]

\* RateLimitWindow::new
RateLimitWindow(limit, duration_secs) ==
  [limit |-> limit, duration_secs |-> duration_secs]

\* IbRateLimiterConfig::from_env without overrides: ten_minute_window,
\* contract_window, duplicate_request_window
DefaultWindows ==
  << RateLimitWindow(60, 600), RateLimitWindow(6, 2), RateLimitWindow(1, 15) >>

\* variant of window_keys: the key does not carry the window's duration, so
\* all windows of an account share one sorted set
window_keys_Shared(windows) == [i \in DOMAIN windows |-> 0]

\* acquire: "rate_limit:ib:historical:<account>:<duration_secs>s", one key
\* per window; with a single account the duration identifies the key
window_keys(windows) == [i \in DOMAIN windows |-> windows[i].duration_secs]

\* the rate limiter before any acquire, for a configuration of windows
RlInit(windows) ==
  [ windows |-> windows,
    keys |-> window_keys(windows),
    zsets |-> [k \in SeqRange(window_keys(windows)) |-> {}],
    expireAt |-> [k \in SeqRange(window_keys(windows)) |-> 0],
    now |-> 0,
    nextReq |-> 1,
    pc |-> [c \in Clients |-> "idle"],
    wake |-> [c \in Clients |-> 0],
    result |-> [c \in Clients |-> None],
    admitted |-> {},
    \* history, read by the properties only: the request ids generated,
    \* the turns of the loop in each caller's current acquire
    used |-> {},
    turns |-> [c \in Clients |-> 0] ]

\* the loop of detect_gaps over the days of the expected range;
\* current_gap_start is << >> (None) or <<date>> (Some); result:
\* <<gaps, current_gap_start>>
RECURSIVE DetectLoop(_, _, _, _)
DetectLoop(days, existing_dates, gaps, current_gap_start) ==
  IF days = << >> THEN <<gaps, current_gap_start>>
  ELSE LET date == Head(days)
           exists == date \in existing_dates
       IN IF ~exists /\ current_gap_start = << >>
            THEN DetectLoop(Tail(days), existing_dates, gaps, <<date>>)
          ELSE IF exists /\ current_gap_start # << >>
            THEN DetectLoop(Tail(days), existing_dates,
                            Append(gaps, <<current_gap_start[1], date - 1>>), << >>)
          ELSE DetectLoop(Tail(days), existing_dates, gaps, current_gap_start)

\* variant of detect_gaps: a gap still open after the last day is dropped
detect_gaps_NoFlush(expected_range, existing_dates) ==
  DetectLoop(split_by_days(expected_range), existing_dates, << >>, << >>)[1]

\* domain detect_gaps: the gaps of expected_range as <<start, end>> pairs
detect_gaps(expected_range, existing_dates) ==
  LET r == DetectLoop(split_by_days(expected_range), existing_dates, << >>, << >>)
  IN IF r[2] # << >>
       THEN Append(r[1], <<r[2][1], expected_range[2]>>)
       ELSE r[1]

\* a call of detect_gaps before it runs
GdCall(expected_range, existing_dates) ==
  [ pc |-> "ready", expected |-> expected_range, existing |-> existing_dates,
    gaps |-> << >> ]

\* a Redis hash of a job key: each field is << >> when absent from the
\* hash and <<value>> when present
Hash(status, job_instance_id, cursor, end_time, heartbeat_at, critical_ranges, last_error_type, state) ==
  [ status |-> status, job_instance_id |-> job_instance_id,
    cursor |-> cursor, end_time |-> end_time, heartbeat_at |-> heartbeat_at,
    critical_ranges |-> critical_ranges, last_error_type |-> last_error_type,
    state |-> state ]
EmptyHash == Hash(<< >>, << >>, << >>, << >>, << >>, << >>, << >>, << >>)

\* a client of the hash before it does anything
HashClient(hash) ==
  [ hash |-> hash, pc |-> "ready", got |-> << >>, seen |-> EmptyHash,
    id |-> NoId, op |-> NoOp, snap |-> NoJob, res |-> None,
    before |-> EmptyHash ]
IdleHash == HashClient(EmptyHash)

\* a call of ParquetGapDetector::detect_gaps before it runs: data_dir
\* holds the files `dir`
ArchiveCall(dir, symbol, range) ==
  [ pc |-> "ready", dir |-> dir, symbol |-> symbol, range |-> range,
    dates |-> {}, gaps |-> << >> ]
IdleArchive == ArchiveCall({}, << >>, <<StartDay, StartDay>>)

\* IngestionServiceImpl before run: the items the market data stream will
\* yield, batch_size, and whether the stream keeps returning None once it
\* has ended (a fused stream)
Service(stream, batch_size, fused) ==
  [ pc |-> "idle", stream |-> stream, batch_size |-> batch_size,
    fused |-> fused, ended |-> FALSE, batch |-> 0, then |-> None,
    saved |-> << >>, shutdown_called |-> FALSE, result |-> None ]
IdleService == Service(<< >>, 1, TRUE)

InitCore ==
  /\ jobs = [k \in JobKeys |-> NoJob]
  /\ now = 0
  /\ nextId = 1
  /\ runs = 0
  /\ wk = [w \in Workers |-> IdleWorker]
  /\ cl = [c \in Clients |-> IdleClient]
  /\ ev = NoEv

InitBase ==
  /\ InitCore
  /\ hs = IdleHash
  /\ ar = IdleArchive
  /\ sv = IdleService

\* no call of a pure date function, no call of the gateway
NoCall == [f |-> None, pc |-> "ready", range |-> <<0, 0>>, cursor |-> 0,
           gaps |-> << >>, items |-> << >>]
GwClients == {"g1", "g2"}
\* a MockHistoricalDataGateway with no fetch_historical_ticks under way
Gateway(max_history_days) ==
  [max_history_days |-> max_history_days, pc |-> "idle", date |-> 0,
   today |-> 0, acquires |-> 0, limiter |-> None, outcome |-> None]
IdleGateway == Gateway(0)

Init ==
  /\ InitBase
  /\ rl = RlInit(DefaultWindows)
  /\ gd = GdCall(<<StartDay, StartDay>>, {})
  /\ pf = NoCall
  /\ gw = [g \in GwClients |-> IdleGateway]

job_key(w) == StartDay

\* a return from backfill_range
Return(r, outcome) == [r EXCEPT !.pc = "done", !.outcome = outcome]

\* the head of the per-day loop: planned days already covered by the
\* cursor are skipped
RECURSIVE SkipDone(_, _)
SkipDone(todo, cursor) ==
  IF todo = << >> THEN << >>
  ELSE IF end_of_day_ts(Head(todo)) <= cursor
    THEN SkipDone(Tail(todo), cursor)
    ELSE todo

\* variant of LoopHead: the next day is fetched without a heartbeat
LoopHead_NoHeartbeat(r, todo, t) ==
  LET rest == SkipDone(todo, r.ctx.cursor)
      r1 == [r EXCEPT !.skipped = @ \o SubSeq(todo, 1, Len(todo) - Len(rest))]
  IN IF rest = << >>
       THEN [r1 EXCEPT !.todo = << >>, !.op = NoOp, !.pc = "shutdown"]
       ELSE [r1 EXCEPT !.todo = rest, !.op = NoOp, !.pc = "single_day"]

\* continue the loop with the days `todo`: either issue the heartbeat of
\* the next day to process or leave the loop towards shutdown
LoopHead(r, todo, t) ==
  LET rest == SkipDone(todo, r.ctx.cursor)
      r1 == [r EXCEPT !.skipped = @ \o SubSeq(todo, 1, Len(todo) - Len(rest))]
  IN IF rest = << >>
       THEN [r1 EXCEPT !.todo = << >>, !.op = NoOp, !.pc = "shutdown"]
       ELSE [r1 EXCEPT !.todo = rest,
                       !.op = [kind |-> "heartbeat", val |-> t],
                       !.pc = "fw_read"]

\* finalize_job starts with the fenced update_status
StartFinalize(r, status) ==
  [r EXCEPT !.op = [kind |-> "update_status", val |-> status],
            !.final_status = status,
            !.pc = "fw_read"]

\* ------------------------------------------------------------------------
\* backfill_range, step by step (every await is a step)
\* ------------------------------------------------------------------------

\* a caller invokes backfill_range(symbol, [StartDay, e]); initialize_job
\* reads the clock
Invoke(w, e) ==
  /\ wk[w].pc \in {"idle", "done"}
  /\ runs < MaxRuns
  /\ runs' = runs + 1
  /\ wk' = [wk EXCEPT ![w] =
              [IdleWorker EXCEPT !.pc = "init_get",
                                 !.range_end = e,
                                 !.tnow = now,
                                 !.after_cancel = (wk[w].outcome = "Cancelled"
                                                   /\ wk[w].ctx # NoJob),
                                 !.prev_failed =
                                   IF wk[w].range_end = e
                                     THEN {wk[w].failed_days[i][1] :
                                             i \in DOMAIN wk[w].failed_days}
                                     ELSE {}]]
  /\ UNCHANGED <<jobs, now, nextId, aux>>

\* variant of LeaseIsActive: a heartbeat exactly HEARTBEAT_TIMEOUT old counts
\* as stale
LeaseIsActive_Strict(st, tnow) ==
  st.status = Running /\ tnow - st.heartbeat_at < HEARTBEAT_TIMEOUT

\* initialize_job: a Running record whose heartbeat is not older than the
\* timeout is an active lease
LeaseIsActive(st, tnow) ==
  st.status = Running /\ tnow - st.heartbeat_at <= HEARTBEAT_TIMEOUT

\* state_field_values: the hash fields written for a state; a state without
\* last error is written with the empty string (unwrap_or_default)
state_field_values(state) ==
  [state EXCEPT !.last_error_type = IF @ = None THEN "" ELSE @]

\* parse_last_error: the empty string is read as no error
parse_last_error(raw) == IF raw = "" THEN None ELSE raw

\* get: the state parsed from the fields of the hash
parse_fields(fields) ==
  [fields EXCEPT !.last_error_type = parse_last_error(@)]

\* the record get returns once the fields of `state` have been written
stored_record(state) == parse_fields(state_field_values(state))

\* variant of TakeoverState: the takeover starts the job over
TakeoverState_ResetCursor(st, id, tnow) ==
  [st EXCEPT !.job_instance_id = id, !.status = Running, !.heartbeat_at = tnow,
             !.cursor = start_of_day_ts(StartDay) - 1]

\* initialize_job: the record written when a stale Running record is taken over
TakeoverState(st, id, tnow) ==
  [st EXCEPT !.job_instance_id = id, !.status = Running, !.heartbeat_at = tnow]

\* variant of FreshState: the initial cursor is the first millisecond of
\* range.start
FreshState_CursorAtStart(id, range_end, tnow) ==
  JobStateNew(id, Running, start_of_day_ts(StartDay),
              end_of_day_ts(range_end), tnow)

\* initialize_job: the record written in every other case (no record, or a
\* record that is not Running)
FreshState(id, range_end, tnow) ==
  JobStateNew(id, Running, start_of_day_ts(StartDay) - 1,
              end_of_day_ts(range_end), tnow)

\* initialize_job: job_state_repo.get and the decision taken on its result
InitGet(w) ==
  LET r == wk[w]
      st == jobs[job_key(w)]
  IN
  /\ r.pc = "init_get"
  /\ IF st # NoJob /\ st.status = Running
       THEN IF LeaseIsActive(st, r.tnow)
              THEN /\ wk' = [wk EXCEPT ![w] =
                               Return([r EXCEPT !.prior = st], "JobAlreadyRunning")]
                   /\ nextId' = nextId
              ELSE /\ wk' = [wk EXCEPT ![w] =
                        [r EXCEPT !.prior = st,
                                  !.pending = TakeoverState(st, nextId, r.tnow),
                                  !.pc = "init_upsert"]]
                   /\ nextId' = nextId + 1
       ELSE /\ wk' = [wk EXCEPT ![w] =
                 [r EXCEPT !.prior = st,
                           !.pending = FreshState(nextId, r.range_end, r.tnow),
                           !.pc = "init_upsert"]]
            /\ nextId' = nextId + 1
  /\ UNCHANGED <<jobs, now, runs, aux>>

\* RedisJobStateRepository::write_full_state: unconditional HSET of every
\* field; the store holds each record as get parses it
write_full_state(store, key, state) == [store EXCEPT ![key] = stored_record(state)]

\* initialize_job: job_state_repo.upsert, then the start of planning
InitUpsert(w) ==
  LET r == wk[w]
      k == job_key(w)
      es == resume_start(StartDay, r.pending.cursor)
      r1 == [r EXCEPT !.ctx = r.pending, !.pending = NoJob, !.effective_start = es]
  IN
  /\ r.pc = "init_upsert"
  /\ jobs' = write_full_state(jobs, k, r.pending)
  /\ wk' = [wk EXCEPT ![w] =
              IF es > r.range_end
                THEN StartFinalize(r1, Completed)
                ELSE [r1 EXCEPT !.pc = "detect_gaps"]]
  /\ UNCHANGED <<now, nextId, runs, aux>>


\* backfill_range: gap_detector.detect_gaps and plan_days_to_process, then
\* the head of the loop
\* variant of GapDetectionFailed: the error is noted and the run goes on
\* with the resume day alone
GapDetectionFailed_Continue(r, t) ==
  LoopHead([r EXCEPT !.outcome = "GapDetectionError",
                     !.planned = <<r.effective_start>>],
           <<r.effective_start>>, t)

\* backfill_range: detect_gaps(..).map_err(GapDetectionError)?
GapDetectionFailed(r, t) == Return(r, "GapDetectionError")

DetectGaps(w) ==
  LET r == wk[w] IN
  /\ r.pc = "detect_gaps"
  /\ \/ wk' = [wk EXCEPT ![w] = GapDetectionFailed(r, now)]
     \/ \E gaps \in GapLists :
          LET run == plan_days_to_process_run(r.effective_start,
                                              r.range_end, gaps)
              days_to_process == run.days
          IN wk' = [wk EXCEPT ![w] =
                      IF run.panicked
                        THEN Return(r, "Panicked")
                        ELSE LoopHead([r EXCEPT !.planned = days_to_process,
                                                !.missing =
                                                  {D \in r.prev_failed :
                                                     \E i \in DOMAIN gaps :
                                                       gaps[i][1] <= D /\ D <= gaps[i][2]},
                                                !.prev_failed = {}],
                                      days_to_process, now)]
  /\ UNCHANGED <<jobs, now, nextId, runs, aux>>

\* the closure each fenced setter of the repository hands to update_with
Updater(kind, val, st) ==
  CASE kind = "update_cursor" -> [st EXCEPT !.cursor = val]
    [] kind = "update_status" -> [st EXCEPT !.status = val]
    [] kind \in {"heartbeat", "fin_heartbeat"} -> [st EXCEPT !.heartbeat_at = val]
    [] kind = "save_error" -> [st EXCEPT !.last_error_type = val]

\* update_with: get, compare the instance id, apply the updater
\* result: <<"ok", state to persist>> or <<error, NoJob>>
update_with_read(st, job_instance_id, kind, val) ==
  IF st = NoJob THEN <<"NotFound", NoJob>>
  ELSE IF st.job_instance_id # job_instance_id THEN <<"StaleInstance", NoJob>>
  ELSE <<"ok", Updater(kind, val, st)>>

\* variant of CHECK_AND_SET_SCRIPT: the script writes without comparing the
\* stored instance id with the expected one
CHECK_AND_SET_NoCompare(store, key, expected, state) ==
  IF store[key] = NoJob THEN <<"NotFound", store>>
  ELSE <<"ok", [store EXCEPT ![key] = stored_record(state)]>>

\* CHECK_AND_SET_SCRIPT as persist_state interprets it:
\* <<result, store after the script>>
CHECK_AND_SET_SCRIPT(store, key, expected, state) ==
  IF store[key] = NoJob THEN <<"NotFound", store>>
  ELSE IF store[key].job_instance_id # expected THEN <<"StaleInstance", store>>
  ELSE <<"ok", [store EXCEPT ![key] = stored_record(state)]>>

\* variant of FencedError: the error of a fenced setter is dropped and the
\* run goes on to the shutdown of the tick store
FencedError_Ignored(r, err) ==
  [r EXCEPT !.snap = NoJob, !.op = NoOp, !.pc = "shutdown",
            !.last_write = [kind |-> r.op.kind, val |-> err],
            !.lost = (err = "StaleInstance")]

\* a fenced setter returned Err: every call site propagates it with `?`
FencedError(r, err) ==
  Return([r EXCEPT !.last_write = [kind |-> r.op.kind, val |-> err],
                   !.lost = (err = "StaleInstance")], err)

\* first half of a fenced setter (update_with up to persist_state)
FencedRead(w) ==
  LET r == wk[w]
      st == jobs[job_key(w)]
      res == update_with_read(st, r.ctx.job_instance_id, r.op.kind, r.op.val)
  IN
  /\ r.pc = "fw_read"
  /\ wk' = [wk EXCEPT ![w] =
              IF res[1] = "ok"
                THEN [r EXCEPT !.snap = res[2], !.pc = "fw_write"]
                ELSE FencedError(r, res[1])]
  /\ UNCHANGED <<jobs, now, nextId, runs, aux>>

\* what backfill_range does after a fenced setter returned Ok
AfterFenced(r, t) ==
  CASE r.op.kind = "heartbeat" ->
         [r EXCEPT !.snap = NoJob, !.op = NoOp, !.pc = "single_day"]
    [] r.op.kind = "update_cursor" ->
         LoopHead([r EXCEPT !.snap = NoJob, !.ctx.cursor = r.op.val,
                            !.ticks = << >>],
                  Tail(r.todo), t)
    [] r.op.kind = "save_error" ->
         LoopHead([r EXCEPT !.snap = NoJob, !.ctx.last_error_type = r.op.val,
                            !.failed_days = Append(@, <<Head(r.todo), r.op.val>>)],
                  Tail(r.todo), t)
    [] r.op.kind = "update_status" ->
         [r EXCEPT !.snap = NoJob, !.ctx.status = r.op.val,
                   !.calls = Append(@, <<"update_status", 0>>),
                   !.op = [kind |-> "fin_heartbeat", val |-> t],
                   !.pc = "fw_read"]
    [] r.op.kind = "fin_heartbeat" ->
         Return([r EXCEPT !.snap = NoJob, !.op = NoOp], "report")

\* second half of a fenced setter (persist_state), then the continuation
FencedWrite(w) ==
  LET r == wk[w]
      k == job_key(w)
      res == CHECK_AND_SET_SCRIPT(jobs, k, r.ctx.job_instance_id, r.snap)
  IN
  /\ r.pc = "fw_write"
  /\ jobs' = res[2]
  /\ wk' = [wk EXCEPT ![w] =
              IF res[1] = "ok"
                THEN AfterFenced([r EXCEPT !.last_write =
                                    [kind |-> r.op.kind, val |-> "ok"]], now)
                ELSE FencedError(r, res[1])]
  /\ UNCHANGED <<now, nextId, runs, aux>>

\* variant of DayOk: a day without ticks is not counted as processed
DayOk_EmptyNotCounted(r, date, ticks) ==
  LET cursor_ts == IF ticks = << >> THEN end_of_day_ts(date)
                   ELSE start_of_day_ts(date) + ticks[Len(ticks)]
  IN [r EXCEPT !.total_ticks = @ + Len(ticks),
               !.days_processed = IF ticks = << >> THEN @ ELSE @ + 1,
               !.saved = Append(@, <<date, Len(ticks)>>),
               !.op = [kind |-> "update_cursor", val |-> cursor_ts],
               !.pc = "fw_read"]

\* backfill_range: the Ok arm of the match on backfill_single_day, up to
\* the call of update_cursor
DayOk(r, date, ticks) ==
  LET tick_count == Len(ticks)
      day_end == end_of_day_ts(date)
      cursor_ts == IF ticks = << >> THEN day_end
                   ELSE start_of_day_ts(date) + ticks[Len(ticks)]
  IN [r EXCEPT !.total_ticks = @ + tick_count,
               !.days_processed = @ + 1,
               !.saved = Append(@, <<date, tick_count>>),
               !.op = [kind |-> "update_cursor", val |-> cursor_ts],
               !.pc = "fw_read"]

\* variant of DayFailed: the failed day is checkpointed like a day that
\* returned no tick
DayFailed_Checkpointed(r, date, msg) ==
  [r EXCEPT !.job_failed = TRUE,
            !.days_processed = @ + 1,
            !.op = [kind |-> "update_cursor", val |-> end_of_day_ts(date)],
            !.pc = "fw_read"]

\* backfill_range: the Err arm of the match, up to the call of save_error
DayFailed(r, date, msg) ==
  [r EXCEPT !.job_failed = TRUE,
            !.op = [kind |-> "save_error", val |-> msg],
            !.pc = "fw_read"]

\* variant of save_batch_called: the batch is saved even when it is empty
save_batch_called_Always(ticks) == TRUE

\* backfill_single_day: save_batch is called when the gateway returned ticks
save_batch_called(ticks) == ticks # << >>

\* backfill_single_day for the day at the head of the loop, and the match
\* on its result up to the next fenced setter
SingleDay(w) ==
  LET r == wk[w]
      date == Head(r.todo)
      r1 == [r EXCEPT !.fetched = Append(@, date)]
  IN
  /\ r.pc = "single_day"
  /\ \/ wk' = [wk EXCEPT ![w] = DayFailed(r1, date, "GatewayError")]
     \/ \E ticks \in TickBatches :
          LET r2 == [r1 EXCEPT !.calls = IF save_batch_called(ticks)
                                           THEN Append(@, <<"save_batch", date>>)
                                           ELSE @]
          IN \/ wk' = [wk EXCEPT ![w] =
                         [DayOk(r2, date, ticks) EXCEPT !.ticks = ticks]]
             \/ save_batch_called(ticks)
                  /\ wk' = [wk EXCEPT ![w] = DayFailed(r2, date, "RepositoryError")]
  /\ UNCHANGED <<jobs, now, nextId, runs, aux>>

\* variant of final_status: the run always ends Completed
final_status_AlwaysCompleted(job_failed) == Completed

\* backfill_range: the final status after the loop
final_status(job_failed) == IF job_failed THEN Failed ELSE Completed

\* repository.shutdown after the loop, then the choice of the final status
Shutdown(w) ==
  LET r == wk[w] IN
  /\ r.pc = "shutdown"
  /\ LET r1 == [r EXCEPT !.calls = Append(@, <<"shutdown", 0>>)]
     IN \/ wk' = [wk EXCEPT ![w] = Return(r1, "RepositoryError")]
        \/ wk' = [wk EXCEPT ![w] =
                    StartFinalize(r1, final_status(r.job_failed))]
  /\ UNCHANGED <<jobs, now, nextId, runs, aux>>

\* the caller drops the future (cancellation or crash) at an await
Cancel(w) ==
  /\ wk[w].pc \notin {"idle", "done"}
  /\ wk' = [wk EXCEPT ![w] = Return(wk[w], "Cancelled")]
  /\ UNCHANGED <<jobs, now, nextId, runs, aux>>

\* time passes
Tick ==
  /\ now + TimeStep <= MaxTime
  /\ now' = now + TimeStep
  /\ UNCHANGED <<jobs, nextId, runs, wk, aux>>

Next ==
  \/ \E w \in Callers, e \in RangeEnds : Invoke(w, e)
  \/ \E w \in Callers : InitGet(w)
  \/ \E w \in Callers : InitUpsert(w)
  \/ \E w \in Callers : DetectGaps(w)
  \/ \E w \in Callers : FencedRead(w)
  \/ \E w \in Callers : FencedWrite(w)
  \/ \E w \in Callers : SingleDay(w)
  \/ \E w \in Callers : Shutdown(w)
  \/ \E w \in Callers : Cancel(w)
  \/ Tick

Spec == Init /\ [][Next]_vars


\* ------------------------------------------------------------------------
\* Overlapping runs (SpecOverlap): while the worker process runs
\* backfill_range, another worker process invokes it on the same job_key and
\* gets as far as its lease acquisition (it is slow from there on); neither
\* is cancelled
\* ------------------------------------------------------------------------
Others == Workers \ Callers

NextOverlap ==
  \/ \E w \in Workers, e \in RangeEnds : Invoke(w, e)
  \/ \E w \in Workers : InitGet(w)
  \/ \E w \in Workers : InitUpsert(w)
  \/ \E w \in Callers : DetectGaps(w)
  \/ \E w \in Callers : FencedRead(w)
  \/ \E w \in Callers : FencedWrite(w)
  \/ \E w \in Callers : SingleDay(w)
  \/ \E w \in Callers : Shutdown(w)
  \/ Tick

SpecOverlap == Init /\ [][NextOverlap]_vars

\* ------------------------------------------------------------------------
\* The job-state repository under concurrent clients (SpecStore): every
\* client may upsert any record and issue any fenced setter with any
\* instance id; a fenced setter is a read (update_with) followed by the
\* check-and-set script (persist_state)
\* ------------------------------------------------------------------------
MaxStoreId == 2      \* instance ids 1..MaxStoreId

StoreIds == 1..MaxStoreId
StoreKey == StartDay

\* the records clients upsert (sample_state of the repository tests)
UpsertStates ==
  { [JobStateNew(i, Running, 0, 100, 0) EXCEPT !.last_error_type = e] :
      i \in StoreIds, e \in {None, "", "GatewayError"} }

\* the fenced setters clients issue
StoreOps ==
  { [kind |-> "update_cursor", val |-> 42],
    [kind |-> "update_status", val |-> Completed],
    [kind |-> "heartbeat", val |-> 300],
    [kind |-> "save_error", val |-> "GatewayError"] }

\* JobStateRepository::upsert
StoreUpsert(c, state) ==
  /\ cl[c].pc = "ready"
  /\ jobs' = write_full_state(jobs, StoreKey, state)
  /\ ev' = [type |-> "upsert", c |-> c, id |-> state.job_instance_id,
            before |-> jobs[StoreKey], after |-> jobs'[StoreKey],
            state |-> state]
  /\ UNCHANGED <<now, nextId, runs, wk, cl, rl, gd, pf, gw, hs, ar, sv>>

\* a fenced setter up to persist_state: get, compare, apply the updater
StoreRead(c, id, op) ==
  LET st == jobs[StoreKey]
      res == update_with_read(st, id, op.kind, op.val)
  IN
  /\ cl[c].pc = "ready"
  /\ cl' = [cl EXCEPT ![c] =
              IF res[1] = "ok"
                THEN [pc |-> "persist", id |-> id, op |-> op, snap |-> res[2]]
                ELSE IdleClient]
  /\ ev' = [type |-> "fenced", phase |-> "read", c |-> c, kind |-> op.kind,
            id |-> id, stored |-> st.job_instance_id, res |-> res[1],
            before |-> st, after |-> st]
  /\ UNCHANGED <<jobs, now, nextId, runs, wk, rl, gd, pf, gw, hs, ar, sv>>

\* persist_state: the check-and-set script decides
StorePersist(c) ==
  LET res == CHECK_AND_SET_SCRIPT(jobs, StoreKey, cl[c].id, cl[c].snap) IN
  /\ cl[c].pc = "persist"
  /\ jobs' = res[2]
  /\ cl' = [cl EXCEPT ![c] = IdleClient]
  /\ ev' = [type |-> "fenced", phase |-> "write", c |-> c, kind |-> cl[c].op.kind,
            val |-> cl[c].op.val, id |-> cl[c].id, stored |-> jobs[StoreKey].job_instance_id,
            res |-> res[1], before |-> jobs[StoreKey], after |-> res[2][StoreKey]]
  /\ UNCHANGED <<now, nextId, runs, wk, rl, gd, pf, gw, hs, ar, sv>>

\* JobStateRepository::get; the event keeps the state of the upsert that
\* came just before it, if any
StoreGet(c) ==
  /\ cl[c].pc = "ready"
  /\ ev' = [type |-> "get", c |-> c, result |-> jobs[StoreKey],
            upserted |-> IF ev.type = "upsert" THEN ev.state ELSE NoJob]
  /\ UNCHANGED <<jobs, now, nextId, runs, wk, cl, rl, gd, pf, gw, hs, ar, sv>>

NextStore ==
  \/ \E c \in Clients, state \in UpsertStates : StoreUpsert(c, state)
  \/ \E c \in Clients : StoreGet(c)
  \/ \E c \in Clients, id \in StoreIds, op \in StoreOps : StoreRead(c, id, op)
  \/ \E c \in Clients : StorePersist(c)

SpecStore == Init /\ [][NextStore]_vars

\* C1: fencing: a fenced setter issued with an instance id that differs from
\* the stored one (the id of the last upsert) fails with StaleInstance and
\* writes nothing, whether the difference is seen by the setter's read or
\* only by its write (the upsert came between the two)
C1_Fencing ==
  (ev.type = "fenced" /\ ev.stored # NoId /\ ev.id # ev.stored)
    => (ev.res = "StaleInstance" /\ ev.after = ev.before)

\* C1 witness: the read of a fenced setter saw its own instance id, an
\* upsert then stored another id, and the setter's write failed StaleInstance
C1_Witness ==
  /\ ev.type = "fenced" /\ ev.phase = "write"
  /\ ev.stored # NoId /\ ev.id # ev.stored
  /\ ev.res = "StaleInstance"

\* ------------------------------------------------------------------------
\* The rate limiter (SpecRL): callers of IbRateLimiter::acquire sharing one
\* store. The admission script is not among the Rust sources; it is
\* modelled from the atomic decision algorithm of the design (purge, test
\* every window, insert into every window, set the TTL).
\* ------------------------------------------------------------------------
MaxReq == 4          \* script attempts over all callers
MaxRlTime == 2500    \* the server clock stops here (ms)
RlTimeStep == 500    \* server clock granularity (ms)
RETRY_SLEEP_MS == 200

\* window configurations: distinct durations with the widest budget on the
\* shortest window; two windows of the same duration (hence the same key)
RlConfigs ==
  { << RateLimitWindow(3, 3), RateLimitWindow(2, 2), RateLimitWindow(2, 1) >>,
    << RateLimitWindow(3, 2), RateLimitWindow(2, 2), RateLimitWindow(1, 1) >> }

\* TTL jitter of the script, seconds
JitterSecs == {0, 1}

\* step 1: purge from every window key the entries older than its duration
RECURSIVE PurgeWindows(_, _, _, _, _)
PurgeWindows(i, zsets, keys, windows, t) ==
  IF i > Len(windows) THEN zsets
  ELSE PurgeWindows(i + 1,
         [zsets EXCEPT ![keys[i]] =
            {m \in @ : ~(m.score < t - windows[i].duration_secs * 1000)}],
         keys, windows, t)

\* step 2: some window is at its limit
Saturated(zsets, keys, windows) ==
  \E i \in DOMAIN windows : Cardinality(zsets[keys[i]]) >= windows[i].limit

\* step 3: ZADD (score = now, member = request_id) into every window key
RECURSIVE InsertWindows(_, _, _, _, _)
InsertWindows(i, zsets, keys, request_id, t) ==
  IF i > Len(keys) THEN zsets
  ELSE InsertWindows(i + 1,
         [zsets EXCEPT ![keys[i]] =
            {m \in @ : m.member # request_id}
              \cup {[member |-> request_id, score |-> t]}],
         keys, request_id, t)

\* step 3: EXPIRE of every window key, duration + jitter
RECURSIVE ExpireWindows(_, _, _, _, _, _)
ExpireWindows(i, expireAt, keys, windows, t, jitter) ==
  IF i > Len(keys) THEN expireAt
  ELSE ExpireWindows(i + 1,
         [expireAt EXCEPT ![keys[i]] = t + (windows[i].duration_secs + jitter) * 1000],
         keys, windows, t, jitter)

\* the atomic admission script: KEYS = window keys, ARGV = (limit,
\* duration) per window and the request id; time is the server's
rate_limiter_script(store, keys, windows, request_id, jitter) ==
  LET purged == PurgeWindows(1, store.zsets, keys, windows, store.now)
  IN IF Saturated(purged, keys, windows)
       THEN [res |-> 0, zsets |-> purged, expireAt |-> store.expireAt]
       ELSE [res |-> 1,
             zsets |-> InsertWindows(1, purged, keys, request_id, store.now),
             expireAt |-> ExpireWindows(1, store.expireAt, keys, windows,
                                        store.now, jitter)]

\* variant of the request id: one id for all attempts
new_request_id_Reused(store, c) == 1

\* acquire: Uuid::new_v4() at the head of every turn of the loop
new_request_id(store, c) == store.nextReq

\* variant of the script arguments: the limits alone, every duration 0
script_args_NoDuration(windows) ==
  [i \in DOMAIN windows |-> RateLimitWindow(windows[i].limit, 0)]

\* variant of the script arguments: duration before limit
script_args_Swapped(windows) ==
  [i \in DOMAIN windows |->
     RateLimitWindow(windows[i].duration_secs, windows[i].limit)]

\* acquire: ARGV of the script, (limit, duration_secs) of each window in the
\* order of the keys
script_args(windows) ==
  [i \in DOMAIN windows |->
     RateLimitWindow(windows[i].limit, windows[i].duration_secs)]

\* acquire: get_connection
RlAcquire(c) ==
  /\ rl.pc[c] = "idle"
  /\ \/ rl' = [rl EXCEPT !.pc[c] = "attempt", !.result[c] = None,
                          !.turns[c] = 0]
     \/ rl' = [rl EXCEPT !.result[c] = "ConnectionError"]
  /\ ev' = NoEv
  /\ UNCHANGED <<jobs, now, nextId, runs, wk, cl, gd, pf, gw, hs, ar, sv>>

\* a reply of the script that is neither 0 nor 1
UnexpectedReply == 2

\* variant of match_result: every reply other than 0 is taken for an admission
match_result_NonZeroIsOk(result) ==
  IF result[1] = "Err" THEN [returns |-> TRUE, value |-> "ScriptError"]
  ELSE IF result[2] # 0 THEN [returns |-> TRUE, value |-> "Ok"]
  ELSE [returns |-> FALSE, value |-> None]

\* variant of match_result: a reply 1 is followed by the sleep and another
\* turn, like a reply 0
match_result_AdmittedRetries(result) ==
  IF result[1] = "Err" THEN [returns |-> TRUE, value |-> "ScriptError"]
  ELSE IF result[2] \in {0, 1} THEN [returns |-> FALSE, value |-> None]
  ELSE [returns |-> TRUE, value |-> "Unexpected"]

\* acquire: the match on the result of the invocation, <<"Ok", reply>> or
\* <<"Err", 0>>: the value acquire returns, or another turn of the loop
match_result(result) ==
  IF result[1] = "Err" THEN [returns |-> TRUE, value |-> "ScriptError"]
  ELSE IF result[2] = 1 THEN [returns |-> TRUE, value |-> "Ok"]
  ELSE IF result[2] = 0 THEN [returns |-> FALSE, value |-> None]
  ELSE [returns |-> TRUE, value |-> "Unexpected"]

\* acquire: one turn of the loop: a fresh request id, the script, the match
\* on its result. The invocation runs the script, or fails, or replies a
\* value that is neither 0 nor 1 (the store is then left as it was)
RlAttempt(c) ==
  /\ rl.pc[c] = "attempt"
  /\ rl.nextReq <= MaxReq
  /\ \E jitter \in JitterSecs, fault \in {"none", "error", "value"} :
       LET request_id == new_request_id(rl, c)
           out == IF fault = "none"
                    THEN rate_limiter_script(rl, rl.keys, script_args(rl.windows),
                                             request_id, jitter)
                    ELSE [res |-> UnexpectedReply, zsets |-> rl.zsets,
                          expireAt |-> rl.expireAt]
           result == IF fault = "error" THEN <<"Err", 0>> ELSE <<"Ok", out.res>>
           m == match_result(result)
       IN /\ rl' = [rl EXCEPT
                      !.zsets = out.zsets,
                      !.expireAt = out.expireAt,
                      !.nextReq = @ + 1,
                      !.pc[c] = IF m.returns THEN "idle" ELSE "sleep",
                      !.wake[c] = IF m.returns THEN 0 ELSE rl.now + RETRY_SLEEP_MS,
                      !.result[c] = m.value,
                      !.admitted = IF fault = "none" /\ out.res = 1
                                     THEN @ \cup {[id |-> request_id, t |-> rl.now, c |-> c]}
                                     ELSE @,
                      !.used = @ \cup {request_id},
                      !.turns[c] = @ + 1]
          /\ ev' = [type |-> IF fault = "none" THEN "script" ELSE "script_fault",
                    c |-> c, rid |-> request_id, t |-> rl.now,
                    res |-> IF fault = "error" THEN -1 ELSE out.res,
                    before |-> rl.zsets, after |-> out.zsets]
  /\ UNCHANGED <<jobs, now, nextId, runs, wk, cl, gd, pf, gw, hs, ar, sv>>

\* acquire: the sleep after a denial is over
RlWake(c) ==
  /\ rl.pc[c] = "sleep"
  /\ rl.now >= rl.wake[c]
  /\ rl' = [rl EXCEPT !.pc[c] = "attempt", !.wake[c] = 0]
  /\ ev' = NoEv
  /\ UNCHANGED <<jobs, now, nextId, runs, wk, cl, gd, pf, gw, hs, ar, sv>>

\* the store drops a window key whose TTL has run out
RlExpire(k) ==
  /\ rl.zsets[k] # {}
  /\ rl.now > rl.expireAt[k]
  /\ rl' = [rl EXCEPT !.zsets[k] = {}]
  /\ ev' = NoEv
  /\ UNCHANGED <<jobs, now, nextId, runs, wk, cl, gd, pf, gw, hs, ar, sv>>

\* server time passes
RlTick ==
  /\ rl.now + RlTimeStep <= MaxRlTime
  /\ rl' = [rl EXCEPT !.now = @ + RlTimeStep]
  /\ ev' = NoEv
  /\ UNCHANGED <<jobs, now, nextId, runs, wk, cl, gd, pf, gw, hs, ar, sv>>

InitRL ==
  /\ InitBase
  /\ \E windows \in RlConfigs : rl = RlInit(windows)
  /\ gd = GdCall(<<StartDay, StartDay>>, {})
  /\ pf = NoCall
  /\ gw = [g \in GwClients |-> IdleGateway]

NextRL ==
  \/ \E c \in Clients : RlAcquire(c)
  \/ \E c \in Clients : RlAttempt(c)
  \/ \E c \in Clients : RlWake(c)
  \/ \E k \in DOMAIN rl.zsets : RlExpire(k)
  \/ RlTick

SpecRL == InitRL /\ [][NextRL]_vars

\* the request id is a member of window i's key
HasMember(zsets, i, rid) == \E m \in zsets[rl.keys[i]] : m.member = rid

\* admitted requests (other than `rid`) of the last `d` seconds before t
AdmittedWithin(rid, t, d) ==
  {h \in rl.admitted : h.id # rid /\ h.t <= t /\ h.t >= t - d * 1000}

\* C4: all-or-nothing: a DENIED execution of the script adds no member to
\* any window (it only purges entries older than a window's duration); an
\* ADMITTED execution leaves exactly one member with the attempt's request
\* id in every window; the request id is never in some windows only
C4_AllOrNothing ==
  ev.type = "script" =>
    /\ ev.res = 0 =>
         \A i \in DOMAIN rl.windows :
           /\ ev.after[rl.keys[i]] \subseteq ev.before[rl.keys[i]]
           /\ ~HasMember(ev.after, i, ev.rid)
           /\ \A m \in ev.before[rl.keys[i]] \ ev.after[rl.keys[i]] :
                \E j \in DOMAIN rl.windows :
                  /\ rl.keys[j] = rl.keys[i]
                  /\ m.score < ev.t - rl.windows[j].duration_secs * 1000
    /\ ev.res = 1 =>
         \A i \in DOMAIN rl.windows :
           Cardinality({m \in ev.after[rl.keys[i]] : m.member = ev.rid}) = 1
    /\ \/ \A i \in DOMAIN rl.windows : HasMember(ev.after, i, ev.rid)
       \/ \A i \in DOMAIN rl.windows : ~HasMember(ev.after, i, ev.rid)

\* C4 witness: a denial by a later window while the first window had room,
\* with expired entries purged by that execution
C4_Witness ==
  /\ ev.type = "script" /\ ev.res = 0
  /\ Cardinality(ev.after[rl.keys[1]]) < rl.windows[1].limit
  /\ \E i \in DOMAIN rl.windows : ev.after[rl.keys[i]] # ev.before[rl.keys[i]]

\* C5: rolling-window bound: for every window (limit L, duration D), no
\* interval of length D contains more than L admissions, whichever callers
\* made them
C5_RollingWindowBound ==
  \A i \in DOMAIN rl.windows : \A h \in rl.admitted :
    Cardinality({g \in rl.admitted :
                   g.t >= h.t /\ g.t <= h.t + rl.windows[i].duration_secs * 1000})
      <= rl.windows[i].limit

\* C5 witness: both callers were admitted, some window is filled to its
\* limit within one duration, and the last attempt was denied
C5_Witness ==
  /\ ev.type = "script" /\ ev.res = 0
  /\ \A c \in Clients : \E h \in rl.admitted : h.c = c
  /\ \E i \in DOMAIN rl.windows : \E h \in rl.admitted :
       Cardinality({g \in rl.admitted :
                      g.t >= h.t /\ g.t <= h.t + rl.windows[i].duration_secs * 1000})
         = rl.windows[i].limit

\* C6: multi-window admission: the script admits exactly when, for every
\* window, fewer requests than its limit were admitted within its duration
C6_AdmittedIffAllWindowsFree ==
  ev.type = "script" =>
    ( ev.res = 1 <=>
        \A i \in DOMAIN rl.windows :
          Cardinality(AdmittedWithin(ev.rid, ev.t, rl.windows[i].duration_secs))
            < rl.windows[i].limit )

\* C6 witness: a denial caused by a single saturated window while every
\* other window had spare capacity
C6_Witness ==
  /\ ev.type = "script" /\ ev.res = 0
  /\ \E i \in DOMAIN rl.windows :
       /\ Cardinality(AdmittedWithin(ev.rid, ev.t, rl.windows[i].duration_secs))
            >= rl.windows[i].limit
       /\ \A j \in DOMAIN rl.windows \ {i} :
            Cardinality(AdmittedWithin(ev.rid, ev.t, rl.windows[j].duration_secs))
              < rl.windows[j].limit

\* ------------------------------------------------------------------------
\* Properties of the coordinator
\* ------------------------------------------------------------------------

\* worker w completed the await it was suspended at (it was not cancelled)
Stepped(w, at) ==
  wk[w].pc = at /\ wk'[w] # wk[w] /\ wk'[w].outcome # "Cancelled"

\* the run of w holds a lease acquired over the record `prior`
Leased(w) == wk[w].ctx # NoJob

\* C2: cursor monotonicity: the stored cursor of a job_key never decreases,
\* whatever sequence of backfill_range invocations writes it
C2_CursorNeverDecreases ==
  [][\A k \in JobKeys :
       jobs[k] # NoJob => (jobs'[k] # NoJob /\ jobs'[k].cursor >= jobs[k].cursor)]_vars

\* C3: every stored job record has cursor <= end_time
C3_CursorAtMostEndTime ==
  \A k \in JobKeys : jobs[k] # NoJob => jobs[k].cursor <= jobs[k].end_time

\* C7: active-lease rejection: when initialize_job reads a Running record
\* whose heartbeat is at most HEARTBEAT_TIMEOUT old, backfill_range returns
\* JobAlreadyRunning, mints no instance id, holds no job context (so issues
\* no write) and leaves the store unchanged
C7_ActiveLeaseRejected ==
  [][\A w \in Workers :
       ( /\ Stepped(w, "init_get")
         /\ jobs[job_key(w)] # NoJob
         /\ jobs[job_key(w)].status = Running
         /\ wk[w].tnow - jobs[job_key(w)].heartbeat_at <= HEARTBEAT_TIMEOUT )
       => ( /\ wk'[w].pc = "done"
            /\ wk'[w].outcome = "JobAlreadyRunning"
            /\ wk'[w].ctx = NoJob
            /\ wk'[w].pending = NoJob
            /\ nextId' = nextId
            /\ jobs' = jobs )]_vars

\* C7 witness: a call returned JobAlreadyRunning and the record it read is
\* still the stored one
C7_Witness ==
  \E w \in Workers :
    /\ wk[w].pc = "done" /\ wk[w].outcome = "JobAlreadyRunning"
    /\ wk[w].prior # NoJob /\ jobs[job_key(w)] = wk[w].prior

\* the record read by initialize_job was Running with a stale heartbeat
StalePrior(r) ==
  /\ r.prior # NoJob
  /\ r.prior.status = Running
  /\ r.tnow - r.prior.heartbeat_at > HEARTBEAT_TIMEOUT

\* C8: stale-lease takeover: the upsert stores a new instance id, the
\* cursor that was read, heartbeat_at = now and status Running, changing no
\* other field of the record; the run plans from that cursor and fetches no
\* day the cursor already covers
C8_StaleTakeover ==
  /\ [][\A w \in Workers :
          (Stepped(w, "init_upsert") /\ StalePrior(wk[w]))
          => LET k == job_key(w)
                 prior == wk[w].prior
             IN /\ jobs'[k].job_instance_id # prior.job_instance_id
                /\ jobs'[k].job_instance_id # jobs[k].job_instance_id
                /\ jobs'[k].cursor = prior.cursor
                /\ jobs'[k].heartbeat_at = wk[w].tnow
                /\ jobs'[k].status = Running
                /\ jobs'[k] = [prior EXCEPT
                                 !.job_instance_id = jobs'[k].job_instance_id,
                                 !.heartbeat_at = wk[w].tnow]
                /\ (jobs[k] = prior => jobs'[k].cursor = jobs[k].cursor)
                /\ wk'[w].ctx = jobs'[k]
                /\ wk'[w].effective_start = resume_start(StartDay, prior.cursor)
     ]_vars
  /\ [](\A w \in Workers :
          (Leased(w) /\ StalePrior(wk[w]))
          => \A i \in DOMAIN wk[w].fetched :
               /\ end_of_day_ts(wk[w].fetched[i]) > wk[w].prior.cursor
               /\ wk[w].fetched[i] >= resume_start(StartDay, wk[w].prior.cursor))

\* C8 witness: a run took over a stale Running record whose cursor lay
\* inside the range, and fetched a day
C8_Witness ==
  \E w \in Workers :
    /\ Leased(w) /\ StalePrior(wk[w])
    /\ wk[w].prior.cursor >= start_of_day_ts(StartDay)
    /\ wk[w].fetched # << >>

\* C9: terminal re-entry keeps the cursor: over a Completed or Failed record
\* the upsert stores a new instance id, the existing cursor and status
\* Running, and the run plans from that cursor
C9_TerminalReentryKeepsCursor ==
  [][\A w \in Workers :
       ( /\ Stepped(w, "init_upsert")
         /\ wk[w].prior # NoJob
         /\ wk[w].prior.status \in {Completed, Failed} )
       => LET k == job_key(w)
              prior == wk[w].prior
          IN /\ jobs'[k].job_instance_id # prior.job_instance_id
             /\ jobs'[k].status = Running
             /\ jobs'[k].cursor = prior.cursor
             /\ wk'[w].effective_start = resume_start(StartDay, prior.cursor)
    ]_vars

\* C10: a run that acquires the lease over a record whose cursor is at or
\* past end_of_day(range.end) never calls the gateway, and the report it
\* returns has no processed day, no tick and no failed day, with final
\* status Completed
C10_CoveredRangeIsNoop ==
  \A w \in Workers :
    ( /\ Leased(w)
      /\ wk[w].prior # NoJob
      /\ wk[w].prior.cursor >= end_of_day_ts(wk[w].range_end) )
    => /\ wk[w].fetched = << >>
       /\ (wk[w].pc = "done" /\ wk[w].outcome = "report")
            => /\ wk[w].days_processed = 0
               /\ wk[w].total_ticks = 0
               /\ wk[w].failed_days = << >>
               /\ wk[w].final_status = Completed
               /\ jobs[job_key(w)].status = Completed

\* backfill_range of w returned Ok(report)
Reported(w) == wk[w].pc = "done" /\ wk[w].outcome = "report"

\* the dates of a list of (date, value) pairs
DatesOf(pairs) == {pairs[i][1] : i \in DOMAIN pairs}

RECURSIVE SumCounts(_)
SumCounts(pairs) ==
  IF pairs = << >> THEN 0 ELSE Head(pairs)[2] + SumCounts(Tail(pairs))

\* C11: report accounting: in every returned report, days_processed is the
\* number of planned days whose fetch and save succeeded, total_ticks is the
\* sum of their tick counts, every planned day is exactly one of skipped,
\* processed or failed, and failed_days.length + days_processed is at most
\* the number of planned days
C11_ReportAccounting ==
  \A w \in Workers :
    Reported(w) =>
      LET r == wk[w]
          processed == DatesOf(r.saved)
          failed == DatesOf(r.failed_days)
          skipped == SeqRange(r.skipped)
      IN /\ r.days_processed = Len(r.saved)
         /\ Cardinality(processed) = Len(r.saved)
         /\ r.total_ticks = SumCounts(r.saved)
         /\ Cardinality(failed) = Len(r.failed_days)
         /\ Cardinality(SeqRange(r.planned)) = Len(r.planned)
         /\ processed \cup failed \cup skipped = SeqRange(r.planned)
         /\ processed \cap failed = {}
         /\ processed \cap skipped = {}
         /\ failed \cap skipped = {}
         /\ Len(r.failed_days) + r.days_processed <= Len(r.planned)

\* C11 witness: a report over two planned days, one processed with ticks
\* and one failed
C11_Witness ==
  \E w \in Workers :
    /\ Reported(w)
    /\ Len(wk[w].planned) = 2
    /\ wk[w].days_processed = 1 /\ wk[w].total_ticks > 0
    /\ Len(wk[w].failed_days) = 1

\* C12: final status: when a report is returned, the stored status is Failed
\* if and only if failed_days is not empty and Completed otherwise, and the
\* stored record carries the run's own instance id
C12_FinalStatus ==
  \A w \in Workers :
    Reported(w) =>
      LET st == jobs[job_key(w)] IN
      /\ st.job_instance_id = wk[w].ctx.job_instance_id
      /\ st.status \in {Failed, Completed}
      /\ (st.status = Failed <=> wk[w].failed_days # << >>)
      /\ wk[w].final_status = st.status

\* C12 witness: a report with a failed day over a stored Failed record
C12_Witness ==
  \E w \in Workers :
    /\ Reported(w)
    /\ wk[w].failed_days # << >>
    /\ jobs[job_key(w)].status = Failed

\* the day-level part of C13: a failed fetch or save of day D leads to
\* save_error with the message, then (D, message) is appended once and the
\* loop goes on with the later planned days
C13_DayFailureRecorded ==
  [][\A w \in Workers :
       /\ ( Stepped(w, "single_day") /\ wk'[w].job_failed /\ ~wk[w].job_failed )
            => wk'[w].op.kind = "save_error"
       /\ ( Stepped(w, "fw_write") /\ wk[w].op.kind = "save_error" )
            => /\ jobs'[job_key(w)].last_error_type = wk[w].op.val
               /\ wk'[w].failed_days =
                    Append(wk[w].failed_days, <<Head(wk[w].todo), wk[w].op.val>>)
               /\ wk'[w].pc # "done"
               /\ wk'[w].todo = SkipDone(Tail(wk[w].todo), wk[w].ctx.cursor)
    ]_vars

\* C13: day-level isolation: a failed fetch or save of a planned day is
\* recorded by save_error and in failed_days and the later days are still
\* attempted; no gateway or repository failure ends the run
C13_DayLevelIsolation ==
  /\ C13_DayFailureRecorded
  /\ [](\A w \in Workers :
          wk[w].outcome \notin {"GatewayError", "RepositoryError"})

\* C14: cursor-update ordering: update_cursor for a planned day is issued
\* only if every earlier planned day was processed or skipped
C14_CursorUpdateOrdering ==
  \A w \in Workers :
    wk[w].op.kind = "update_cursor" =>
      \A i \in DOMAIN wk[w].planned :
        wk[w].planned[i] < Head(wk[w].todo)
          => wk[w].planned[i] \in DatesOf(wk[w].saved) \cup SeqRange(wk[w].skipped)

\* C15: the days passed to the gateway within a run are strictly ascending,
\* none twice, whatever list of gaps the detector returned
C15_AscendingDays ==
  \A w \in Workers :
    \A i, j \in DOMAIN wk[w].fetched :
      i < j => wk[w].fetched[i] < wk[w].fetched[j]

\* C15 witness: a run fetched two days, the first of which failed
C15_Witness ==
  \E w \in Workers :
    /\ Len(wk[w].fetched) = 2
    /\ wk[w].failed_days # << >>
    /\ wk[w].failed_days[1][1] = wk[w].fetched[1]

\* C17: failed gap detection: backfill_range returns GapDetectionError, no
\* fenced write was issued (so no terminal status), no day was fetched or
\* saved, and the stored record is the Running record written at lease
\* acquisition
C17_GapDetectionErrorIsFatal ==
  \A w \in Workers :
    wk[w].outcome = "GapDetectionError" =>
      /\ wk[w].pc = "done"
      /\ wk[w].fetched = << >> /\ wk[w].saved = << >>
      /\ wk[w].last_write = NoOp /\ wk[w].final_status = None
      /\ jobs[job_key(w)] = wk[w].ctx
      /\ jobs[job_key(w)].status = Running

\* C17 witness: a run that resumed from a cursor inside the range returned
\* GapDetectionError
C17_Witness ==
  \E w \in Workers :
    /\ wk[w].outcome = "GapDetectionError"
    /\ wk[w].ctx.cursor >= start_of_day_ts(StartDay)
    /\ jobs[job_key(w)].job_instance_id = wk[w].ctx.job_instance_id

\* C19: resume after cancellation: the invocation that follows a run
\* cancelled after its lease acquisition reads a Running record and either
\* returns JobAlreadyRunning or takes the record over with its cursor
C19_ResumeAfterCancel ==
  [][\A w \in Workers :
       ( Stepped(w, "init_get") /\ wk[w].after_cancel )
       => LET st == jobs[job_key(w)] IN
          /\ st.status = Running
          /\ \/ wk'[w].outcome = "JobAlreadyRunning"
             \/ /\ wk'[w].pc = "init_upsert"
                /\ wk'[w].pending.cursor = st.cursor
    ]_vars

\* C16: every gateway fetch directly follows a successful fenced heartbeat
\* of the same run, and a run whose heartbeat failed does not fetch the day
\* the heartbeat was issued for
C16_HeartbeatBeforeFetch ==
  /\ [][\A w \in Workers :
          Len(wk'[w].fetched) > Len(wk[w].fetched)
            => /\ wk[w].last_write = [kind |-> "heartbeat", val |-> "ok"]
               /\ wk'[w].fetched = Append(wk[w].fetched, Head(wk[w].todo))
     ]_vars
  /\ [](\A w \in Workers :
          (wk[w].last_write.kind = "heartbeat" /\ wk[w].last_write.val # "ok")
            => /\ wk[w].pc = "done"
               /\ wk[w].todo # << >>
               /\ Head(wk[w].todo) \notin SeqRange(wk[w].fetched))

\* C16 witness: a run fetched a day after a heartbeat, and its heartbeat for
\* the next day failed
C16_Witness ==
  \E w \in Workers :
    /\ wk[w].fetched # << >>
    /\ wk[w].last_write = [kind |-> "heartbeat", val |-> "StaleInstance"]
    /\ wk[w].pc = "done"

\* C18: losing instance is fatal: a run whose fenced write failed with
\* StaleInstance has returned that error, and from then on takes no step:
\* no write to the job record, no fetch, no save
C18_LosingInstanceIsFatal ==
  /\ [](\A w \in Workers :
          wk[w].lost => (wk[w].pc = "done" /\ wk[w].outcome = "StaleInstance"))
  /\ [][\A w \in Workers :
          (wk[w].lost /\ wk'[w].lost) => wk'[w] = wk[w]]_vars

\* C18 witness: another worker installed its instance id and the run lost
\* its update_cursor after fetching a day
C18_Witness ==
  \E w \in Workers :
    /\ wk[w].lost
    /\ wk[w].last_write = [kind |-> "update_cursor", val |-> "StaleInstance"]
    /\ wk[w].fetched # << >>
    /\ jobs[job_key(w)].job_instance_id # wk[w].ctx.job_instance_id

\* ------------------------------------------------------------------------
\* detect_gaps (SpecGaps): the function applied to every expected range
\* within 1..MaxDate and every set of existing dates within 0..MaxDate
\* ------------------------------------------------------------------------
ExpectedRanges ==
  { r \in (1..MaxDate) \X (1..MaxDate) : r[1] <= r[2] }

InitGaps ==
  /\ InitBase
  /\ rl = RlInit(DefaultWindows)
  /\ \E expected \in ExpectedRanges, existing \in SUBSET (0..MaxDate) :
       gd = GdCall(expected, existing)
  /\ pf = NoCall
  /\ gw = [g \in GwClients |-> IdleGateway]

\* the call
GdDetect ==
  /\ gd.pc = "ready"
  /\ gd' = IF split_by_days_run(gd.expected).panicked
              THEN [gd EXCEPT !.pc = "panicked"]
              ELSE [gd EXCEPT !.pc = "done",
                              !.gaps = detect_gaps(gd.expected, gd.existing)]
  /\ UNCHANGED <<jobs, now, nextId, runs, wk, cl, ev, rl, pf, gw, hs, ar, sv>>

NextGaps == GdDetect

SpecGaps == InitGaps /\ [][NextGaps]_vars

\* the days of a gap
GapDays(g) == g[1]..g[2]

\* C20: the days of the returned gaps are exactly the days of the expected
\* range that are not among the existing dates; the gaps are valid ranges,
\* pairwise disjoint and in chronological order; every gap is maximal: the
\* day before its start and the day after its end are existing dates or lie
\* outside the expected range
C20_DetectGaps ==
  gd.pc # "ready" =>
    LET E == gd.expected[1]..gd.expected[2]
        X == gd.existing
        gaps == gd.gaps
    IN /\ gd.pc = "done"
       /\ UNION {GapDays(gaps[i]) : i \in DOMAIN gaps} = E \ X
       /\ \A i \in DOMAIN gaps : gaps[i][1] <= gaps[i][2]
       /\ \A i, j \in DOMAIN gaps : i < j => gaps[i][2] < gaps[j][1]
       /\ \A i \in DOMAIN gaps :
            /\ (gaps[i][1] - 1 \in X \/ gaps[i][1] - 1 \notin E)
            /\ (gaps[i][2] + 1 \in X \/ gaps[i][2] + 1 \notin E)

\* C20 witness: two gaps, the second running to the end of the expected
\* range, with an existing date outside the range
C20_Witness ==
  /\ gd.pc = "done"
  /\ Len(gd.gaps) = 2
  /\ gd.gaps[2][2] = gd.expected[2]
  /\ \E d \in gd.existing : d > gd.expected[2]

\* C20 restricted to the calls that return
C20_ReturnedGapsAreRight ==
  gd.pc = "done" =>
    LET E == gd.expected[1]..gd.expected[2]
        X == gd.existing
        gaps == gd.gaps
    IN /\ UNION {GapDays(gaps[i]) : i \in DOMAIN gaps} = E \ X
       /\ \A i, j \in DOMAIN gaps : i < j => gaps[i][2] < gaps[j][1]
       /\ \A i \in DOMAIN gaps :
            /\ gaps[i][1] <= gaps[i][2]
            /\ (gaps[i][1] - 1 \in X \/ gaps[i][1] - 1 \notin E)
            /\ (gaps[i][2] + 1 \in X \/ gaps[i][2] + 1 \notin E)

\* ------------------------------------------------------------------------
\* The pure date functions (SpecDates): split_by_days, plan_days_to_process
\* and resume_start applied to every range of the calendar
\* ------------------------------------------------------------------------
PfCall(f, range, cursor, gaps) ==
  [f |-> f, pc |-> "ready", range |-> range, cursor |-> cursor,
   gaps |-> gaps, items |-> << >>]

\* lists of at most two gaps; a gap is a DateRange, so its start is not
\* after its end
PlanGapLists ==
  {<< >>} \cup {<<g>> : g \in ExpectedRanges}
          \cup {<<g, h>> : g \in ExpectedRanges, h \in ExpectedRanges}

\* cursors: around the start and the end of every day of the calendar, in
\* the middle of a day, before the calendar and after it
Cursors ==
  UNION { {start_of_day_ts(d) - 1, start_of_day_ts(d), start_of_day_ts(d) + 43200000,
           end_of_day_ts(d), end_of_day_ts(d) + 999} : d \in 0..(MaxDate + 1) }

InitDates ==
  /\ InitBase
  /\ rl = RlInit(DefaultWindows)
  /\ gd = GdCall(<<StartDay, StartDay>>, {})
  /\ gw = [g \in GwClients |-> IdleGateway]
  /\ \/ \E r \in ExpectedRanges : pf = PfCall("split_by_days", r, 0, << >>)
     \/ \E es \in 1..MaxDate, re \in 1..MaxDate, gaps \in PlanGapLists :
          pf = PfCall("plan_days_to_process", <<es, re>>, 0, gaps)
     \/ \E r \in ExpectedRanges, cursor \in Cursors :
          pf = PfCall("resume_start", r, cursor, << >>)

\* DateRange::new(s, e).split_by_days()
PfSplit ==
  /\ pf.f = "split_by_days" /\ pf.pc = "ready"
  /\ LET run == split_by_days_run(pf.range)
     IN pf' = [pf EXCEPT !.pc = IF run.panicked THEN "panicked" ELSE "done",
                         !.items = run.items]
  /\ UNCHANGED <<jobs, now, nextId, runs, wk, cl, ev, rl, gd, gw, hs, ar, sv>>

\* plan_days_to_process(effective_start, range_end, gaps)
PfPlan ==
  /\ pf.f = "plan_days_to_process" /\ pf.pc = "ready"
  /\ LET run == plan_days_to_process_run(pf.range[1], pf.range[2], pf.gaps)
     IN pf' = [pf EXCEPT !.pc = IF run.panicked THEN "panicked" ELSE "done",
                         !.items = IF run.panicked THEN << >> ELSE run.days]
  /\ UNCHANGED <<jobs, now, nextId, runs, wk, cl, ev, rl, gd, gw, hs, ar, sv>>

\* backfill_range from resume_start to the construction of the range handed
\* to the gap detector: items is <<effective_start>>
PfResume ==
  /\ pf.f = "resume_start" /\ pf.pc = "ready"
  /\ LET effective_start == resume_start(pf.range[1], pf.cursor)
     IN pf' = [pf EXCEPT
                 !.items = <<effective_start>>,
                 !.pc = IF effective_start > pf.range[2] THEN "finalize"
                        ELSE IF DateRange_new(effective_start, pf.range[2]) = "Ok"
                          THEN "detect_gaps"
                          ELSE "panicked"]
  /\ UNCHANGED <<jobs, now, nextId, runs, wk, cl, ev, rl, gd, gw, hs, ar, sv>>

NextDates == PfSplit \/ PfPlan \/ PfResume

SpecDates == InitDates /\ [][NextDates]_vars

\* C21: for every s <= e, split_by_days returns e - s + 1 single days, in
\* chronological order and one day apart, the first being s and the last e
C21_SplitByDays ==
  (pf.f = "split_by_days" /\ pf.pc # "ready") =>
    LET s == pf.range[1]
        e == pf.range[2]
    IN /\ pf.pc = "done"
       /\ Len(pf.items) = e - s + 1
       /\ pf.items[1] = s
       /\ pf.items[Len(pf.items)] = e
       /\ \A i \in 1..(Len(pf.items) - 1) : pf.items[i + 1] = pf.items[i] + 1

\* C21 restricted to the calls that return
C21_ReturnedDaysAreRight ==
  (pf.f = "split_by_days" /\ pf.pc = "done") =>
    LET s == pf.range[1]
        e == pf.range[2]
    IN /\ Len(pf.items) = e - s + 1
       /\ pf.items[1] = s
       /\ pf.items[Len(pf.items)] = e
       /\ \A i \in 1..(Len(pf.items) - 1) : pf.items[i + 1] = pf.items[i] + 1

\* C22: acquire returns Ok only on a turn whose script replied ADMITTED;
\* every turn of the loop uses a request id no earlier turn of any caller
\* used; after DENIED the caller does not return: it sleeps the backoff and
\* then makes another turn; when the invocation fails or replies a value
\* other than 0 and 1 the caller returns an error and makes no other turn
C22_ClientLoop ==
  [][\A c \in Clients :
       /\ (rl'.result[c] = "Ok" /\ rl.result[c] # "Ok") =>
            /\ rl.pc[c] = "attempt"
            /\ ev'.type = "script" /\ ev'.c = c /\ ev'.res = 1
       /\ (rl.pc[c] = "attempt" /\ rl'.pc[c] # "attempt") =>
            /\ ev'.type \in {"script", "script_fault"} /\ ev'.c = c
            /\ ev'.rid \notin rl.used
            /\ (ev'.type = "script" /\ ev'.res = 0) =>
                 /\ rl'.pc[c] = "sleep"
                 /\ rl'.wake[c] = rl.now + RETRY_SLEEP_MS
                 /\ rl'.result[c] = None
            /\ ev'.type = "script_fault" =>
                 /\ rl'.pc[c] = "idle"
                 /\ rl'.result[c] = (IF ev'.res = -1 THEN "ScriptError" ELSE "Unexpected")
       /\ (rl.pc[c] = "sleep" /\ rl'.pc[c] # "sleep") =>
            /\ rl'.pc[c] = "attempt"
            /\ rl.now >= rl.wake[c]
       /\ (rl.pc[c] = "idle" /\ rl.result[c] \in {"ScriptError", "Unexpected"}) =>
            (rl'.pc[c] = "idle" \/ rl'.result[c] = None)
    ]_vars

\* C22 witness: a caller was denied, slept, made another turn with another
\* request id and was admitted, and the other caller returned an error for
\* a reply that is neither 0 nor 1
C22_Witness ==
  /\ ev.type = "script" /\ ev.res = 1
  /\ rl.result[ev.c] = "Ok"
  /\ rl.turns[ev.c] = 2
  /\ ev.rid \in rl.used
  /\ \E c \in Clients : c # ev.c /\ rl.result[c] = "Unexpected"

\* the admissions before the attempt of the last script execution
AdmittedBefore == {h \in rl.admitted : h.id # ev.rid}

\* the time of the n-th most recent admission among H (H has at least n)
NthMostRecent(H, n) ==
  CHOOSE x \in {h.t : h \in H} :
    /\ Cardinality({h \in H : h.t >= x}) >= n
    /\ \A y \in {h.t : h \in H} :
         y > x => Cardinality({h \in H : h.t >= y}) < n

\* window i has filled up, and at time t no more than its duration has
\* passed since its limit-th most recent admission
WindowClosed(i, t) ==
  /\ Cardinality(AdmittedBefore) >= rl.windows[i].limit
  /\ t - NthMostRecent(AdmittedBefore, rl.windows[i].limit)
       <= rl.windows[i].duration_secs * 1000

\* C23: window reset: for a window of limit L and duration D that has
\* filled up, an attempt made no later than D after the L-th most recent
\* admission is DENIED, and an attempt made more than D after it is
\* ADMITTED when the other windows have capacity
C23_WindowReset ==
  ev.type = "script" =>
    \A i \in DOMAIN rl.windows :
      Cardinality(AdmittedBefore) >= rl.windows[i].limit =>
        /\ WindowClosed(i, ev.t) => ev.res = 0
        /\ ( /\ ~WindowClosed(i, ev.t)
             /\ \A j \in DOMAIN rl.windows : j # i => ~WindowClosed(j, ev.t) )
             => ev.res = 1

\* C23 witness: a caller denied by a full window makes another turn more
\* than the window's duration after the admissions that filled it, and is
\* admitted
C23_Witness ==
  /\ ev.type = "script" /\ ev.res = 1
  /\ rl.turns[ev.c] >= 2
  /\ \E i \in DOMAIN rl.windows :
       /\ Cardinality(AdmittedBefore) >= rl.windows[i].limit
       /\ ~WindowClosed(i, ev.t)
       /\ WindowClosed(i, ev.t - 1000)

\* ------------------------------------------------------------------------
\* The historical gateway (SpecGateway): callers of
\* MockHistoricalDataGateway::fetch_historical_ticks, each with its gateway
\* ------------------------------------------------------------------------
\* horizons of the provider, in days
HistoryDays == {1, 3}

\* what RateLimiter::acquire returns: Ok or a RateLimiterError
AcquireResults == {"Ok", "ConnectionError", "ScriptError", "Unexpected"}

InitGateway ==
  /\ InitBase
  /\ rl = RlInit(DefaultWindows)
  /\ gd = GdCall(<<StartDay, StartDay>>, {})
  /\ pf = NoCall
  /\ gw \in [GwClients -> {Gateway(m) : m \in HistoryDays}]

\* fetch_historical_ticks up to the rate limiter: the date is refused when
\* it lies more than max_history_days before today
GwFetch(g) ==
  /\ gw[g].pc \in {"idle", "done"}
  /\ \E date \in 0..MaxDate, today \in 0..MaxDate :
       LET days_ago == today - date
           call == [gw[g] EXCEPT !.date = date, !.today = today, !.acquires = 0,
                                 !.limiter = None, !.outcome = None]
       IN gw' = [gw EXCEPT ![g] =
                   IF days_ago > gw[g].max_history_days
                     THEN [call EXCEPT !.pc = "done", !.outcome = "DataNotAvailable"]
                     ELSE [call EXCEPT !.pc = "acquire"]]
  /\ UNCHANGED <<jobs, now, nextId, runs, wk, cl, ev, rl, gd, pf, hs, ar, sv>>

\* rate_limiter.acquire().await.expect("Rate limiter acquired"): the call
\* goes on to generate the ticks, or panics
expect_acquired(result) == IF result = "Ok" THEN "Ticks" ELSE "panic"

\* fetch_historical_ticks from the rate limiter on: acquire, expect, then
\* the ticks of the day
GwAcquire(g) ==
  /\ gw[g].pc = "acquire"
  /\ \E result \in AcquireResults :
       gw' = [gw EXCEPT ![g] =
                [@ EXCEPT !.acquires = @ + 1,
                          !.limiter = result,
                          !.pc = IF expect_acquired(result) = "panic"
                                   THEN "panicked" ELSE "done",
                          !.outcome = IF expect_acquired(result) = "panic"
                                        THEN None ELSE "Ticks"]]
  /\ UNCHANGED <<jobs, now, nextId, runs, wk, cl, ev, rl, gd, pf, hs, ar, sv>>

NextGateway ==
  \/ \E g \in GwClients : GwFetch(g)
  \/ \E g \in GwClients : GwAcquire(g)

SpecGateway == InitGateway /\ [][NextGateway]_vars

\* C24: gateway gating: a call that returns ticks made exactly one acquire
\* in that call, and it returned Ok; a failure of the rate limiter ends the
\* call with an error returned to the caller, never with ticks and never
\* with a panic of the calling task
C24_GatewayGating ==
  \A g \in GwClients :
    /\ gw[g].outcome = "Ticks" => (gw[g].acquires = 1 /\ gw[g].limiter = "Ok")
    /\ gw[g].pc # "panicked"
    /\ gw[g].limiter \in AcquireResults \ {"Ok"} =>
         (gw[g].pc = "done" /\ gw[g].outcome \notin {None, "Ticks"})

\* the first part of C24 alone: ticks only after one acquire that returned Ok
C24_TicksAfterOneAcquire ==
  \A g \in GwClients :
    /\ gw[g].outcome = "Ticks" => (gw[g].acquires = 1 /\ gw[g].limiter = "Ok")
    /\ gw[g].limiter \in AcquireResults \ {"Ok"} => gw[g].outcome # "Ticks"

\* the days of the save_batch calls of a run, in the order of the calls
SaveBatchDays(calls) ==
  LET saves == SelectSeq(calls, LAMBDA c : c[1] = "save_batch")
  IN [i \in DOMAIN saves |-> saves[i][2]]

\* C25: in every run that returns a report after entering the per-day loop,
\* the calls of the tick store and the terminal status write are: one
\* save_batch for every day whose fetch returned ticks (the save succeeded
\* or failed), none for any other day, in ascending day order, then one
\* shutdown, then the terminal status write
C25_TickStoreCalls ==
  \A w \in Workers :
    (Reported(w) /\ wk[w].planned # << >>) =>
      LET r == wk[w]
          calls == r.calls
          n == Len(calls)
          days == SaveBatchDays(calls)
          withTicks ==
            {r.saved[i][1] : i \in {j \in DOMAIN r.saved : r.saved[j][2] > 0}}
              \cup {r.failed_days[i][1] :
                      i \in {j \in DOMAIN r.failed_days :
                               r.failed_days[j][2] = "RepositoryError"}}
      IN /\ n >= 2
         /\ calls[n] = <<"update_status", 0>>
         /\ calls[n - 1] = <<"shutdown", 0>>
         /\ \A i \in 1..(n - 2) : calls[i][1] = "save_batch"
         /\ SeqRange(days) = withTicks
         /\ \A i, j \in DOMAIN days : i < j => days[i] < days[j]

\* C25 witness: a report over two processed days, the first empty and the
\* second with ticks: one save_batch, for the second day, then shutdown
C25_Witness ==
  \E w \in Workers :
    /\ Reported(w)
    /\ Len(wk[w].saved) = 2
    /\ wk[w].saved[1][2] = 0 /\ wk[w].saved[2][2] > 0
    /\ Len(wk[w].calls) = 3
    /\ wk[w].calls[1] = <<"save_batch", wk[w].saved[2][1]>>

\* the moves of the stored status
StatusMoves ==
  { <<"ABSENT", Running>>, <<Running, Completed>>, <<Running, Failed>>,
    <<Completed, Running>>, <<Failed, Running>> }

\* C26: job status state machine: the stored status of a job_key only
\* moves Running -> Completed, Running -> Failed and Completed/Failed ->
\* Running (and from no record to Running); a move to Running is the upsert
\* of a lease acquisition, which installs another instance id; every write
\* that leaves a Completed or Failed record is made by a run whose instance
\* id is the stored one at the moment of the write, and keeps that id
C26_StatusStateMachine ==
  [][\A k \in JobKeys :
       /\ jobs'[k].status # jobs[k].status =>
            <<jobs[k].status, jobs'[k].status>> \in StatusMoves
       /\ (jobs'[k].status # jobs[k].status /\ jobs'[k].status = Running) =>
            \E w \in Workers :
              /\ Stepped(w, "init_upsert") /\ job_key(w) = k
              /\ jobs'[k].job_instance_id = wk[w].pending.job_instance_id
              /\ jobs'[k].job_instance_id # jobs[k].job_instance_id
       /\ (jobs'[k] # jobs[k] /\ jobs'[k].status \in {Completed, Failed}) =>
            \E w \in Workers :
              /\ Stepped(w, "fw_write") /\ job_key(w) = k
              /\ wk[w].ctx.job_instance_id = jobs[k].job_instance_id
              /\ jobs'[k].job_instance_id = jobs[k].job_instance_id
    ]_vars

\* C26 witness: a run returned its report over a terminal record, and the
\* lease acquisition of another run has moved the record back to Running
\* under another instance id
C26_Witness ==
  \E w \in Workers, k \in JobKeys :
    /\ Reported(w) /\ job_key(w) = k
    /\ wk[w].final_status \in {Completed, Failed}
    /\ jobs[k].status = Running
    /\ jobs[k].job_instance_id # wk[w].ctx.job_instance_id

\* the fields of the job record C27 is about
RoundTripFields ==
  {"status", "job_instance_id", "cursor", "end_time", "critical_ranges",
   "last_error_type"}

\* C27: job record round trip: a get that follows upsert(k, s) with no write
\* in between returns a record whose status, job_instance_id, cursor,
\* end_time, critical_ranges and last_error_type are those of s
C27_RoundTrip ==
  (ev.type = "get" /\ ev.upserted # NoJob) =>
    /\ ev.result # NoJob
    /\ \A f \in RoundTripFields : ev.result[f] = ev.upserted[f]

\* C27 without the last error: a get that follows an upsert returns the
\* other fields as upserted, and the last error too unless it was the empty
\* string, which is read back as no last error
C27_RoundTripButEmptyError ==
  (ev.type = "get" /\ ev.upserted # NoJob) =>
    /\ ev.result # NoJob
    /\ \A f \in RoundTripFields \ {"last_error_type"} :
         ev.result[f] = ev.upserted[f]
    /\ ev.result.last_error_type =
         (IF ev.upserted.last_error_type = "" THEN None
          ELSE ev.upserted.last_error_type)

\* the days of [effective_start, range_end] that lie in some gap
ClippedGapDays(effective_start, range_end, gaps) ==
  {d \in 0..MaxDate :
     /\ effective_start <= d /\ d <= range_end
     /\ \E i \in DOMAIN gaps : gaps[i][1] <= d /\ d <= gaps[i][2]}

\* C28: planning: for every effective_start <= range.end and every list of
\* gaps, plan_days_to_process returns exactly effective_start and the days
\* of the gaps that lie in [effective_start, range.end], each once, in
\* ascending order; effective_start is planned even when no gap holds it
C28_Planning ==
  ( /\ pf.f = "plan_days_to_process" /\ pf.pc # "ready"
    /\ pf.range[1] <= pf.range[2] ) =>
    /\ pf.pc = "done"
    /\ SeqRange(pf.items) =
         {pf.range[1]} \cup ClippedGapDays(pf.range[1], pf.range[2], pf.gaps)
    /\ \A i, j \in DOMAIN pf.items : i < j => pf.items[i] < pf.items[j]
    /\ \E i \in DOMAIN pf.items : pf.items[i] = pf.range[1]

\* C28 restricted to the calls that return
C28_ReturnedPlanIsRight ==
  ( /\ pf.f = "plan_days_to_process" /\ pf.pc = "done"
    /\ pf.range[1] <= pf.range[2] ) =>
    /\ SeqRange(pf.items) =
         {pf.range[1]} \cup ClippedGapDays(pf.range[1], pf.range[2], pf.gaps)
    /\ \A i, j \in DOMAIN pf.items : i < j => pf.items[i] < pf.items[j]
    /\ \E i \in DOMAIN pf.items : pf.items[i] = pf.range[1]

\* the cursor lies within the UTC day `date`
DayContains(date, cursor) ==
  date * MsPerDay <= cursor /\ cursor < (date + 1) * MsPerDay

\* C29 as stated: effective_start is range.start when the cursor is before
\* the start of range.start and otherwise the UTC day containing the cursor;
\* effective_start >= range.start; the range handed to the gap detector is
\* a valid DateRange
C29_EffectiveStart ==
  (pf.f = "resume_start" /\ pf.pc # "ready") =>
    LET range_start == pf.range[1]
        effective_start == pf.items[1]
    IN /\ pf.cursor < start_of_day_ts(range_start) => effective_start = range_start
       /\ pf.cursor >= start_of_day_ts(range_start) =>
            DayContains(effective_start, pf.cursor)
       /\ effective_start >= range_start
       /\ pf.pc # "panicked"
       /\ pf.pc = "detect_gaps" => effective_start <= pf.range[2]

\* C29 amended: as C29, the UTC day containing the cursor being taken when
\* the cursor is a timestamp of the calendar; for a cursor after the end of
\* the calendar effective_start is range.start
C29_EffectiveStartInCalendar ==
  (pf.f = "resume_start" /\ pf.pc # "ready") =>
    LET range_start == pf.range[1]
        effective_start == pf.items[1]
        last_ts == end_of_day_ts(MaxDate) + 999
    IN /\ pf.cursor < start_of_day_ts(range_start) => effective_start = range_start
       /\ (pf.cursor >= start_of_day_ts(range_start) /\ pf.cursor <= last_ts) =>
            DayContains(effective_start, pf.cursor)
       /\ pf.cursor > last_ts => effective_start = range_start
       /\ effective_start >= range_start
       /\ pf.pc # "panicked"
       /\ pf.pc = "detect_gaps" => effective_start <= pf.range[2]

\* C29 witness: the cursor is the last millisecond of a day after
\* range.start and inside the range: that day is the effective start and
\* gap detection is requested from it
C29_Witness ==
  /\ pf.f = "resume_start" /\ pf.pc = "detect_gaps"
  /\ pf.items[1] > pf.range[1]
  /\ pf.cursor = end_of_day_ts(pf.items[1]) + 999

\* C30: fresh job creation: when backfill_range finds no record for the
\* job_key, it generates an instance id never generated before, and its
\* upsert stores a record with that id, status Running, cursor one
\* millisecond before the start of range.start, end_time the end of
\* range.end, heartbeat_at the time read by initialize_job and no last
\* error; planning then starts at range.start, which is the first planned
\* day
C30_FreshJobCreation ==
  [][\A w \in Workers :
       LET k == job_key(w) IN
       /\ (Stepped(w, "init_get") /\ jobs[k] = NoJob) =>
            /\ wk'[w].pc = "init_upsert"
            /\ wk'[w].pending.job_instance_id >= nextId
            /\ nextId' > wk'[w].pending.job_instance_id
       /\ (Stepped(w, "init_upsert") /\ wk[w].prior = NoJob) =>
            /\ jobs'[k].job_instance_id = wk[w].pending.job_instance_id
            /\ jobs'[k].job_instance_id # NoId
            /\ jobs'[k].status = Running
            /\ jobs'[k].cursor = StartDay * MsPerDay - 1
            /\ jobs'[k].end_time = wk[w].range_end * MsPerDay + EndOfDayOffsetMs
            /\ jobs'[k].heartbeat_at = wk[w].tnow
            /\ jobs'[k].last_error_type = None
            /\ jobs'[k].critical_ranges = << >>
            /\ wk'[w].effective_start = StartDay
            /\ wk'[w].pc = "detect_gaps"
       /\ (Stepped(w, "detect_gaps") /\ wk[w].prior = NoJob
             /\ wk'[w].planned # << >>) =>
            wk'[w].planned[1] = StartDay
    ]_vars

\* C30 witness: a run that found no record has planned more than one day,
\* starting with range.start, over the record its lease acquisition stored
C30_Witness ==
  \E w \in Workers :
    /\ wk[w].prior = NoJob /\ wk[w].ctx # NoJob
    /\ Len(wk[w].planned) >= 2
    /\ wk[w].planned[1] = StartDay
    /\ wk[w].pc = "fw_read" /\ wk[w].op.kind = "heartbeat"
    /\ jobs[job_key(w)].cursor = start_of_day_ts(StartDay) - 1

\* the fenced setter `kind` of w has just been persisted
Persisted(w, kind) ==
  /\ Stepped(w, "fw_write") /\ wk[w].op.kind = kind
  /\ wk'[w].last_write = [kind |-> kind, val |-> "ok"]

\* C31: cursor checkpoint value: when the update_cursor of a day D that
\* was fetched and saved is persisted, the stored cursor is the timestamp
\* of the last tick returned for D, or the end of D when D returned no
\* tick, and it lies within D: start of D <= cursor <= end_of_day_ms(D)
C31_CursorCheckpoint ==
  [][\A w \in Workers :
       Persisted(w, "update_cursor") =>
         LET D == Head(wk[w].todo)
             ticks == wk[w].ticks
             cursor == jobs'[job_key(w)].cursor
         IN /\ ticks = << >> => cursor = D * MsPerDay + EndOfDayOffsetMs
            /\ ticks # << >> => cursor = D * MsPerDay + ticks[Len(ticks)]
            /\ D * MsPerDay <= cursor
            /\ cursor <= D * MsPerDay + EndOfDayOffsetMs
    ]_vars

\* C31 without the upper bound: the stored cursor is the timestamp of the
\* last tick, or the end of the day for an empty day
C31_CursorIsLastTick ==
  [][\A w \in Workers :
       Persisted(w, "update_cursor") =>
         LET D == Head(wk[w].todo)
             ticks == wk[w].ticks
             cursor == jobs'[job_key(w)].cursor
         IN /\ ticks = << >> => cursor = D * MsPerDay + EndOfDayOffsetMs
            /\ ticks # << >> => cursor = D * MsPerDay + ticks[Len(ticks)]
            /\ D * MsPerDay <= cursor
            /\ cursor < (D + 1) * MsPerDay
    ]_vars

\* the record a fenced setter is meant to leave: only its target field set
TargetFieldSet(state, kind, val) ==
  CASE kind = "update_cursor" -> [state EXCEPT !.cursor = val]
    [] kind = "update_status" -> [state EXCEPT !.status = val]
    [] kind = "heartbeat" -> [state EXCEPT !.heartbeat_at = val]
    [] kind = "save_error" -> [state EXCEPT !.last_error_type = val]

\* C32: effect of fenced mutations: on a key with no stored instance id the
\* mutation fails NotFound and creates no record; one that fails
\* StaleInstance leaves the stored record unchanged; one that succeeds
\* changes only its target field of the record as it was at the moment of
\* the write
C32_FencedEffect ==
  ev.type = "fenced" =>
    /\ ev.stored = NoId => (ev.res = "NotFound" /\ ev.after = NoJob)
    /\ ev.res = "StaleInstance" => ev.after = ev.before
    /\ (ev.phase = "write" /\ ev.res = "ok") =>
         ev.after = TargetFieldSet(ev.before, ev.kind, ev.val)

\* C32 without the frame of a successful write: failed mutations write
\* nothing, and a successful one sets its target field and keeps the id
C32_FailuresWriteNothing ==
  ev.type = "fenced" =>
    /\ ev.stored = NoId => (ev.res = "NotFound" /\ ev.after = NoJob)
    /\ ev.res # "ok" => ev.after = ev.before
    /\ (ev.phase = "write" /\ ev.res = "ok") =>
         /\ ev.after.job_instance_id = ev.before.job_instance_id
         /\ TargetFieldSet(ev.after, ev.kind, ev.val) = ev.after

\* ------------------------------------------------------------------------
\* The job hash field by field (SpecLegacy): hashes left by an earlier
\* version hold the record as one `state` blob, with or without some of
\* the fields; a client reads the hash with get and then issues a fenced
\* setter with the instance id that get reported
\* ------------------------------------------------------------------------
\* the record an earlier version serialised into the blob, and the fields a
\* partly migrated hash holds
LegacyBlob == [JobStateNew(2, Running, 7, 100, 0) EXCEPT !.last_error_type = "GatewayError"]
FieldId == 1

\* the hashes the client finds: no hash, a blob alone, a blob next to the
\* instance id field, every field with and without a blob, every field but
\* the cursor next to a blob, the instance id field alone
LegacyHashes ==
  { EmptyHash,
    Hash(<< >>, << >>, << >>, << >>, << >>, << >>, << >>, <<LegacyBlob>>),
    Hash(<< >>, <<FieldId>>, << >>, << >>, << >>, << >>, << >>, <<LegacyBlob>>),
    Hash(<<Running>>, <<FieldId>>, <<5>>, <<100>>, <<0>>, << >>, <<"">>, <<LegacyBlob>>),
    Hash(<<Running>>, <<FieldId>>, <<5>>, <<100>>, <<0>>, <<<< >>>>, << >>, << >>),
    Hash(<<Running>>, <<FieldId>>, << >>, <<100>>, <<0>>, << >>, << >>, <<LegacyBlob>>),
    Hash(<< >>, <<FieldId>>, << >>, << >>, << >>, << >>, << >>, << >>) }

\* state_field_values as the HSET arguments: every field of the hash is
\* written, the blob among them
hash_field_values(state) ==
  LET fv == state_field_values(state) IN
  Hash(<<fv.status>>, <<fv.job_instance_id>>, <<fv.cursor>>, <<fv.end_time>>,
       <<fv.heartbeat_at>>, <<fv.critical_ranges>>, <<fv.last_error_type>>,
       <<state>>)

\* parse_critical_ranges: an absent field reads as no range
parse_critical_ranges(payload) == IF payload = << >> THEN << >> ELSE payload[1]

\* RedisJobStateRepository::get on a hash: << >> for None, <<state>> for Some
get(h) ==
  IF /\ h.status # << >> /\ h.job_instance_id # << >> /\ h.cursor # << >>
     /\ h.end_time # << >> /\ h.heartbeat_at # << >>
    THEN << [ status |-> h.status[1], job_instance_id |-> h.job_instance_id[1],
              cursor |-> h.cursor[1], end_time |-> h.end_time[1],
              heartbeat_at |-> h.heartbeat_at[1],
              critical_ranges |-> parse_critical_ranges(h.critical_ranges),
              last_error_type |->
                parse_last_error(IF h.last_error_type = << >> THEN ""
                                 ELSE h.last_error_type[1]) ] >>
  ELSE IF h.state = << >> THEN << >>
  ELSE << [h.state[1] EXCEPT !.job_instance_id =
             IF h.job_instance_id # << >> THEN h.job_instance_id[1] ELSE @] >>

\* persist_state on a hash: the script reads the job_instance_id field
\* <<result, hash after the script>>
persist_state(h, job_instance_id, state) ==
  IF h.job_instance_id = << >> THEN <<"NotFound", h>>
  ELSE IF h.job_instance_id[1] # job_instance_id THEN <<"StaleInstance", h>>
  ELSE <<"ok", hash_field_values(state)>>

\* the client calls get
HsGet ==
  /\ hs.pc = "ready"
  /\ hs' = [hs EXCEPT !.got = get(hs.hash), !.seen = hs.hash, !.pc = "got"]
  /\ UNCHANGED <<jobs, now, nextId, runs, wk, cl, ev, rl, gd, pf, gw, ar, sv>>

\* the client issues a fenced setter with the instance id get reported:
\* update_with up to persist_state
HsUpdateWith(op) ==
  LET id == hs.got[1].job_instance_id
      st == get(hs.hash)
      res == update_with_read(IF st = << >> THEN NoJob ELSE st[1],
                              id, op.kind, op.val)
  IN
  /\ hs.pc = "got" /\ hs.got # << >>
  /\ hs' = IF res[1] = "ok"
             THEN [hs EXCEPT !.pc = "persist", !.id = id, !.op = op,
                             !.snap = res[2], !.res = None]
             ELSE [hs EXCEPT !.pc = "done", !.id = id, !.op = op,
                             !.res = res[1], !.before = hs.hash]
  /\ UNCHANGED <<jobs, now, nextId, runs, wk, cl, ev, rl, gd, pf, gw, ar, sv>>

\* persist_state of the client's fenced setter
HsPersist ==
  LET res == persist_state(hs.hash, hs.id, hs.snap) IN
  /\ hs.pc = "persist"
  /\ hs' = [hs EXCEPT !.pc = "done", !.res = res[1], !.before = hs.hash,
                      !.hash = res[2], !.snap = NoJob]
  /\ UNCHANGED <<jobs, now, nextId, runs, wk, cl, ev, rl, gd, pf, gw, ar, sv>>

\* another writer upserts the key (write_full_state)
HsUpsert(state) ==
  /\ hs.pc \in {"ready", "got", "persist"}
  /\ hs' = [hs EXCEPT !.hash = hash_field_values(state)]
  /\ UNCHANGED <<jobs, now, nextId, runs, wk, cl, ev, rl, gd, pf, gw, ar, sv>>

\* the client starts over
HsAgain ==
  /\ hs.pc = "done"
  /\ hs' = HashClient(hs.hash)
  /\ UNCHANGED <<jobs, now, nextId, runs, wk, cl, ev, rl, gd, pf, gw, ar, sv>>

InitLegacy ==
  /\ InitCore
  /\ sv = IdleService
  /\ ar = IdleArchive
  /\ rl = RlInit(DefaultWindows)
  /\ gd = GdCall(<<StartDay, StartDay>>, {})
  /\ pf = NoCall
  /\ gw = [g \in GwClients |-> IdleGateway]
  /\ \E h \in LegacyHashes : hs = HashClient(h)

NextLegacy ==
  \/ HsGet
  \/ \E op \in StoreOps : HsUpdateWith(op)
  \/ HsPersist
  \/ \E state \in UpsertStates : HsUpsert(state)
  \/ HsAgain

SpecLegacy == InitLegacy /\ [][NextLegacy]_vars

FieldLevel(h) ==
  /\ h.status # << >> /\ h.job_instance_id # << >> /\ h.cursor # << >>
  /\ h.end_time # << >> /\ h.heartbeat_at # << >>

\* what get returned is as C33 describes it
ReadIsBackwardCompatible ==
  hs.pc = "got" =>
    LET h == hs.seen IN
    /\ FieldLevel(h) =>
         /\ hs.got # << >>
         /\ hs.got[1].status = h.status[1]
         /\ hs.got[1].job_instance_id = h.job_instance_id[1]
         /\ hs.got[1].cursor = h.cursor[1]
         /\ hs.got[1].end_time = h.end_time[1]
         /\ hs.got[1].heartbeat_at = h.heartbeat_at[1]
    /\ (~FieldLevel(h) /\ h.state # << >>) =>
         /\ hs.got # << >>
         /\ \A f \in {"status", "cursor", "end_time", "heartbeat_at",
                      "critical_ranges", "last_error_type"} :
              hs.got[1][f] = h.state[1][f]
         /\ hs.got[1].job_instance_id =
              IF h.job_instance_id # << >> THEN h.job_instance_id[1]
              ELSE h.state[1].job_instance_id
    /\ (~FieldLevel(h) /\ h.state = << >>) => hs.got = << >>

\* C33: backward-compatible read: get returns the field-level record when
\* status, job_instance_id, cursor, end_time and heartbeat_at are all
\* present; otherwise the deserialized legacy blob, with job_instance_id
\* replaced by the field-level value when that field is present; otherwise
\* None; and a record that get returns can be mutated by a fenced setter
\* carrying the instance id get reported (the hash being as get read it)
C33_BackwardCompatRead ==
  /\ ReadIsBackwardCompatible
  /\ (hs.pc = "done" /\ hs.before = hs.seen) => hs.res = "ok"

\* C33 without its last clause: what get returns
C33_ReadOnly == ReadIsBackwardCompatible

\* ------------------------------------------------------------------------
\* The archive gap detector (SpecArchive). A file name is the sequence of
\* its '_'-separated parts without the extension, and the extension; a
\* symbol is the sequence of its '_'-separated parts.
\* ------------------------------------------------------------------------
MaxFiles == 2        \* files in the archive directory

FileName(parts, ext) == [parts |-> parts, ext |-> ext]
File(name, num_rows) == [name |-> name, num_rows |-> num_rows]

\* the date strings found in file names, read as the detector reads them:
\* the byte length, and the parsed year, month and day
DateStrings ==
  [ s \in {"20240101", "20240102", "20240103", "20241301", "2024012"} |->
      CASE s = "20240101" -> [len |-> 8, year |-> 2024, month |-> 1, day |-> 1]
        [] s = "20240102" -> [len |-> 8, year |-> 2024, month |-> 1, day |-> 2]
        [] s = "20240103" -> [len |-> 8, year |-> 2024, month |-> 1, day |-> 3]
        [] s = "20241301" -> [len |-> 8, year |-> 2024, month |-> 13, day |-> 1]
        [] s = "2024012" -> [len |-> 7, year |-> 2024, month |-> 1, day |-> 2] ]

\* NaiveDate::from_ymd_opt on the dates in use: day d of January 2024 is
\* calendar day d; << >> is None
from_ymd_opt(y, m, d) ==
  IF y = 2024 /\ m = 1 /\ d \in 1..31 THEN <<d>> ELSE << >>

Symbols == { <<"ES">>, <<"NQ">>, <<"ES", "M">> }

FileNames ==
  { FileName(<<"ES", "20240101", "00">>, ".parquet"),
    FileName(<<"ES", "20240102", "13">>, ".parquet"),
    FileName(<<"ES", "20240103", "xx">>, ".parquet"),
    FileName(<<"ES", "20240103">>, ".parquet"),
    FileName(<<"ES", "20240103", "00">>, ".csv"),
    FileName(<<"ES", "20241301", "00">>, ".parquet"),
    FileName(<<"ES", "2024012", "00">>, ".parquet"),
    FileName(<<"NQ", "20240101", "00">>, ".parquet"),
    FileName(<<"ES", "M", "20240102", "00">>, ".parquet") }

ArchiveFiles == { File(n, r) : n \in FileNames, r \in {0, 3} }

ArchiveDirs ==
  { d \in SUBSET ArchiveFiles :
      /\ Cardinality(d) <= MaxFiles
      /\ \A f, g \in d : f.name = g.name => f = g }

ArchiveRanges == { r \in (1..3) \X (1..3) : r[1] <= r[2] }

\* filename.starts_with(format!("{}_", symbol))
starts_with_symbol(name, symbol) ==
  /\ Len(name.parts) > Len(symbol)
  /\ SubSeq(name.parts, 1, Len(symbol)) = symbol

\* the hours of a day as they appear in file names
HourStrings == {"00", "13"}

\* get_existing_dates: the date a file name stands for, << >> when the
\* entry is skipped
file_date(name, symbol) ==
  IF name.ext # ".parquet" THEN << >>
  ELSE IF ~starts_with_symbol(name, symbol) THEN << >>
  ELSE IF Len(name.parts) # 3 THEN << >>
  ELSE LET date_str == DateStrings[name.parts[2]] IN
       IF date_str.len # 8 THEN << >>
       ELSE from_ymd_opt(date_str.year, date_str.month, date_str.day)

\* file_has_data
file_has_data(f) == f.num_rows > 0

\* ParquetGapDetector::get_existing_dates
get_existing_dates(dir, symbol) ==
  { file_date(f.name, symbol)[1] :
      f \in { g \in dir : file_date(g.name, symbol) # << >> /\ file_has_data(g) } }

\* ParquetGapDetector::detect_gaps
ArDetectGaps ==
  /\ ar.pc = "ready"
  /\ LET existing_dates == get_existing_dates(ar.dir, ar.symbol) IN
     ar' = [ar EXCEPT !.pc = "done", !.dates = existing_dates,
                      !.gaps = detect_gaps(ar.range, existing_dates)]
  /\ UNCHANGED <<jobs, now, nextId, runs, wk, cl, ev, rl, gd, pf, gw, hs, sv>>

InitArchive ==
  /\ InitCore
  /\ sv = IdleService
  /\ hs = IdleHash
  /\ rl = RlInit(DefaultWindows)
  /\ gd = GdCall(<<StartDay, StartDay>>, {})
  /\ pf = NoCall
  /\ gw = [g \in GwClients |-> IdleGateway]
  /\ \E dir \in ArchiveDirs, symbol \in Symbols, range \in ArchiveRanges :
       ar = ArchiveCall(dir, symbol, range)

NextArchive == ArDetectGaps

SpecArchive == InitArchive /\ [][NextArchive]_vars

\* the file is named <symbol>_YYYYMMDD_HH.parquet for the symbol and day d
\* of January 2024
NamedFor(name, symbol, d) ==
  /\ name.ext = ".parquet"
  /\ \E s \in DOMAIN DateStrings, hh \in HourStrings :
       /\ name.parts = symbol \o <<s, hh>>
       /\ DateStrings[s].len = 8
       /\ from_ymd_opt(DateStrings[s].year, DateStrings[s].month,
                       DateStrings[s].day) = <<d>>

\* the dates for which the directory holds a well-named file with rows
PresentDates ==
  { d \in 1..31 : \E f \in ar.dir : /\ NamedFor(f.name, ar.symbol, d)
                                    /\ f.num_rows > 0 }

\* C34: archive presence: a date is treated as present if and only if at
\* least one file named <symbol>_YYYYMMDD_HH.parquet for that symbol and
\* date holds at least one row (so files with other names are ignored and
\* files without rows do not count), and the returned gaps are detect_gaps
\* over exactly that present set
C34_ArchivePresence ==
  ar.pc = "done" =>
    /\ ar.dates = PresentDates
    /\ ar.gaps = detect_gaps(ar.range, PresentDates)

\* C34 for symbols without '_' and files whose last part is an hour
C34_WellFormedHours ==
  (/\ ar.pc = "done"
   /\ Len(ar.symbol) = 1
   /\ \A f \in ar.dir : f.name.parts[Len(f.name.parts)] \in HourStrings) =>
    /\ ar.dates = PresentDates
    /\ ar.gaps = detect_gaps(ar.range, PresentDates)

\* ------------------------------------------------------------------------
\* Two overlapping runs over a stale lease (SpecTakeover): a crashed run
\* left a Running record whose heartbeat is older than HEARTBEAT_TIMEOUT;
\* two callers invoke backfill_range once each on that job_key and run to
\* the end, neither is cancelled
\* ------------------------------------------------------------------------
\* the record the crashed run left: it had not advanced the cursor
CrashedId == 1
CrashedRecord ==
  stored_record(JobStateNew(CrashedId, Running, start_of_day_ts(StartDay) - 1,
                            end_of_day_ts(MaxDay), 0))

InitTakeover ==
  /\ jobs = [k \in JobKeys |-> CrashedRecord]
  /\ now = MaxTime
  /\ nextId = CrashedId + 1
  /\ runs = 0
  /\ wk = [w \in Workers |-> IdleWorker]
  /\ cl = [c \in Clients |-> IdleClient]
  /\ ev = NoEv
  /\ hs = IdleHash
  /\ ar = IdleArchive
  /\ sv = IdleService
  /\ rl = RlInit(DefaultWindows)
  /\ gd = GdCall(<<StartDay, StartDay>>, {})
  /\ pf = NoCall
  /\ gw = [g \in GwClients |-> IdleGateway]

\* each caller invokes backfill_range once, for the range of the record
InvokeOnce(w) ==
  /\ wk[w].pc = "idle"
  /\ Invoke(w, MaxDay)

NextTakeover ==
  \/ \E w \in Workers : InvokeOnce(w)
  \/ \E w \in Workers : InitGet(w)
  \/ \E w \in Workers : InitUpsert(w)
  \/ \E w \in Workers : DetectGaps(w)
  \/ \E w \in Workers : FencedRead(w)
  \/ \E w \in Workers : FencedWrite(w)
  \/ \E w \in Workers : SingleDay(w)
  \/ \E w \in Workers : Shutdown(w)

SpecTakeover == InitTakeover /\ [][NextTakeover]_vars

\* both invocations read the record the crashed run left, hence before
\* either of them upserted
BothReadStale == \A w \in Workers : wk[w].prior = CrashedRecord

\* C35: overlapping takeover: when two invocations on the same job_key both
\* read the same stale Running record before either upserts, at most one of
\* them returns a report, and the upsert of one does not overwrite a cursor
\* update the other has already persisted
C35_OverlappingTakeover ==
  /\ [](BothReadStale => ~(\A w \in Workers : Reported(w)))
  /\ [][\A w \in Workers :
          (Stepped(w, "init_upsert") /\ BothReadStale) =>
            jobs'[job_key(w)].cursor = jobs[job_key(w)].cursor]_vars

\* C35, its first half alone: at most one of the two returns a report
C35_AtMostOneReport ==
  BothReadStale => ~(\A w \in Workers : Reported(w))

\* C35, its last clause alone: the upsert keeps the persisted cursor
C35_UpsertKeepsCursor ==
  [][\A w \in Workers :
       (Stepped(w, "init_upsert") /\ BothReadStale) =>
         jobs'[job_key(w)].cursor = jobs[job_key(w)].cursor]_vars

\* the run of w has planned its days, or has found nothing to plan
Planned(w) ==
  \/ Stepped(w, "detect_gaps") /\ wk'[w].outcome = "none"
  \/ Stepped(w, "init_upsert") /\ wk'[w].pc # "detect_gaps"

\* day D is still missing from the archive when w plans: the detector
\* reports it; a run that plans nothing does not ask the detector, and no
\* run has fetched D since it failed
StillMissing(w, D) ==
  \/ wk[w].pc = "init_upsert"
  \/ D \in wk'[w].missing

\* C36: no lost day: a day that the previous run on the same job_key and
\* range recorded as failed, and that the archive still lacks, is planned
\* by the next run that acquires the lease, whether that run re-enters
\* after Failed or takes over a stale Running record left by a crash after
\* later days had advanced the cursor
C36_NoLostDay ==
  [][\A w \in Workers :
       Planned(w) =>
         \A D \in wk[w].prev_failed :
           StillMissing(w, D) => D \in SeqRange(wk'[w].planned)
    ]_vars

\* C36 for the run that re-enters after Failed
C36_ReentryAfterFailed ==
  [][\A w \in Workers :
       (Planned(w) /\ wk[w].prior.status = Failed) =>
         \A D \in wk[w].prev_failed :
           StillMissing(w, D) => D \in SeqRange(wk'[w].planned)
    ]_vars

\* backfill_range of w returned Err
ReturnedError(w) ==
  wk[w].pc = "done" /\ wk[w].outcome \notin {"report", "Cancelled"}

\* the run of w has written a terminal status to the job record
WroteTerminalStatus(w) ==
  \E i \in DOMAIN wk[w].calls : wk[w].calls[i] = <<"update_status", 0>>

\* C37: outcome agrees with stored status: a run that returns an error has
\* not written Completed or Failed to the job record
C37_OutcomeAgreesWithStatus ==
  \A w \in Workers : ReturnedError(w) => ~WroteTerminalStatus(w)

\* w is between the failure of the fetch or save of the day at the head of
\* its loop and the end of the processing of that day
FailedDayInProgress(r) ==
  /\ r.pc \in {"fw_read", "fw_write"}
  /\ r.fetched # << >> /\ r.todo # << >>
  /\ r.fetched[Len(r.fetched)] = Head(r.todo)
  /\ Head(r.todo) \notin DatesOf(r.saved)

\* the fields of the stored record that a failed day must leave alone
KeptByFailedDay(st) ==
  <<st.cursor, st.status, st.end_time, st.job_instance_id, st.critical_ranges>>

\* C38: a failed day leaves the cursor alone: when the fetch or save of
\* planned day D fails, the processing of D (its heartbeat, the failed
\* fetch or save, its save_error) changes only last_error_type and
\* heartbeat_at in the stored record, and increments neither days_processed
\* nor total_ticks
C38_FailedDayFrame ==
  [][\A w \in Workers :
       LET k == job_key(w) IN
       /\ (Stepped(w, "fw_write") /\ wk[w].op.kind = "heartbeat") =>
            jobs'[k] = [jobs[k] EXCEPT !.heartbeat_at = jobs'[k].heartbeat_at]
       /\ (Stepped(w, "single_day") /\ FailedDayInProgress(wk'[w])) =>
            /\ jobs' = jobs
            /\ wk'[w].days_processed = wk[w].days_processed
            /\ wk'[w].total_ticks = wk[w].total_ticks
       /\ ((Stepped(w, "fw_read") \/ Stepped(w, "fw_write"))
             /\ FailedDayInProgress(wk[w])) =>
            /\ KeptByFailedDay(jobs'[k]) = KeptByFailedDay(jobs[k])
            /\ jobs'[k].heartbeat_at = jobs[k].heartbeat_at
            /\ wk'[w].days_processed = wk[w].days_processed
            /\ wk'[w].total_ticks = wk[w].total_ticks
    ]_vars

\* C38 witness: after a first day that was saved, the second day failed and
\* its error is stored, with the cursor still inside the first day
C38_Witness ==
  \E w \in Workers :
    /\ DatesOf(wk[w].saved) = {StartDay}
    /\ DatesOf(wk[w].failed_days) = {StartDay + 1}
    /\ wk[w].days_processed = 1
    /\ jobs[job_key(w)].last_error_type = "RepositoryError"
    /\ jobs[job_key(w)].job_instance_id = wk[w].ctx.job_instance_id
    /\ jobs[job_key(w)].cursor < start_of_day_ts(StartDay + 1)
    /\ jobs[job_key(w)].status = Running

\* ------------------------------------------------------------------------
\* The rate limiter for ever (SpecRLFair): callers call acquire again and
\* again, the store is available and the script always replies. Time is
\* kept relative: the server clock stays at Horizon and a tick ages every
\* score, TTL and wake time instead; anything older than Horizon is older
\* than every window. Request ids are fresh with respect to the store.
\* ------------------------------------------------------------------------
Horizon == 4000      \* the server clock, ms; longer than every window and TTL

\* the windows of the callers: budgets of 3 and 2 on a shared 2 s key, a
\* budget of 1 per second
FairWindows ==
  << RateLimitWindow(3, 2), RateLimitWindow(2, 2), RateLimitWindow(1, 1) >>

Older(t, d) == IF t > d THEN t - d ELSE 0

\* every time of the limiter moved d ms into the past
Aged(store, d) ==
  [store EXCEPT
     !.zsets = [k \in DOMAIN @ |->
                  {[m EXCEPT !.score = Older(m.score, d)] : m \in @[k]}],
     !.expireAt = [k \in DOMAIN @ |-> Older(@[k], d)],
     !.wake = [c \in DOMAIN @ |-> Older(@[c], d)]]

\* a request id that no entry of the store carries
FreshId(zsets) ==
  LET members == UNION {{m.member : m \in zsets[k]} : k \in DOMAIN zsets}
  IN CHOOSE i \in 1..(Cardinality(members) + 1) :
       /\ i \notin members
       /\ \A j \in 1..(i - 1) : j \in members

\* acquire: get_connection succeeds
RfAcquire(c) ==
  /\ rl.pc[c] = "idle"
  /\ rl' = [rl EXCEPT !.pc[c] = "attempt", !.result[c] = None]
  /\ ev' = NoEv
  /\ UNCHANGED <<jobs, now, nextId, runs, wk, cl, gd, pf, gw, hs, ar, sv>>

\* acquire: one turn of the loop; the script replies 0 or 1
RfAttempt(c) ==
  /\ rl.pc[c] = "attempt"
  /\ \E jitter \in JitterSecs :
       LET request_id == new_request_id(rl, c)
           out == rate_limiter_script(rl, rl.keys, script_args(rl.windows),
                                      request_id, jitter)
           m == match_result(<<"Ok", out.res>>)
       IN rl' = [rl EXCEPT
                   !.zsets = out.zsets,
                   !.expireAt = out.expireAt,
                   !.nextReq = FreshId(out.zsets),
                   !.pc[c] = IF m.returns THEN "idle" ELSE "sleep",
                   !.wake[c] = IF m.returns THEN 0 ELSE rl.now + RETRY_SLEEP_MS,
                   !.result[c] = m.value]
  /\ ev' = NoEv
  /\ UNCHANGED <<jobs, now, nextId, runs, wk, cl, gd, pf, gw, hs, ar, sv>>

\* server time passes
RfTick ==
  /\ rl' = Aged(rl, RlTimeStep)
  /\ ev' = NoEv
  /\ UNCHANGED <<jobs, now, nextId, runs, wk, cl, gd, pf, gw, hs, ar, sv>>

InitRLFair ==
  /\ InitBase
  /\ rl = [RlInit(FairWindows) EXCEPT !.now = Horizon]
  /\ gd = GdCall(<<StartDay, StartDay>>, {})
  /\ pf = NoCall
  /\ gw = [g \in GwClients |-> IdleGateway]

NextRLFair ==
  \/ \E c \in Clients : RfAcquire(c)
  \/ \E c \in Clients : RfAttempt(c)
  \/ \E c \in Clients : RlWake(c)
  \/ \E k \in DOMAIN rl.zsets : RlExpire(k)
  \/ RfTick

\* fair scheduling: the executor runs every task that is ready (a turn of
\* the loop, the end of a sleep) and time advances; nothing obliges a
\* caller to call acquire, nor the store to drop an expired key at once
SpecRLFair ==
  /\ InitRLFair
  /\ [][NextRLFair]_vars
  /\ \A c \in Clients : WF_vars(RfAttempt(c)) /\ WF_vars(RlWake(c))
  /\ WF_vars(RfTick)

MaxStream == 3       \* items the stream yields before it ends
MaxBatchSize == 2    \* batch_size is 1..MaxBatchSize

RECURSIVE Streams(_)
Streams(n) ==
  IF n = 0 THEN {<< >>}
  ELSE Streams(n - 1) \cup
       {Append(st, i) : st \in Streams(n - 1), i \in {"tick", "error"}}

\* tokio::select! of the loop: the branches that can complete. The stream
\* branch is disabled when next() returns None (its pattern is Some), the
\* timer branch always matches, and `else` runs only when every branch is
\* disabled
select_branches(stream) ==
  LET enabled == (IF stream # << >> THEN {"stream"} ELSE {}) \cup {"timer"}
  IN IF enabled = {} THEN {"else"} ELSE enabled

\* flush_batch is called: save_batch is awaited, then the run goes on at
\* `then`
flush_batch(s, then) == [s EXCEPT !.pc = "save_batch", !.then = then]

\* the code after the loop up to its first await
AfterLoop(s) ==
  IF s.batch # 0 THEN flush_batch(s, "shutdown")
  ELSE [s EXCEPT !.pc = "shutdown"]

\* run up to the loop: gateway.subscribe
SvRun ==
  /\ sv.pc = "idle"
  /\ \/ sv' = [sv EXCEPT !.pc = "select"]
     \/ sv' = [sv EXCEPT !.pc = "done", !.result = "GatewayError"]
  /\ UNCHANGED <<jobs, now, nextId, runs, wk, cl, ev, rl, gd, pf, gw, hs, ar>>

\* one select! of the loop and the handler of the branch that completed;
\* a stream that is not fused may panic when it is polled after its end
\* (the gateway's stream is a futures::stream::unfold, which does)
SvSelect ==
  /\ sv.pc = "select"
  /\ \/ /\ sv.stream = << >> /\ sv.ended /\ ~sv.fused
        /\ sv' = [sv EXCEPT !.pc = "panicked"]
     \/ \E b \in select_branches(sv.stream) :
          LET s == [sv EXCEPT !.ended = (sv.stream = << >>)] IN
          sv' = CASE b = "stream" ->
                       IF Head(s.stream) = "tick"
                         THEN LET s1 == [s EXCEPT !.stream = Tail(@),
                                                  !.batch = @ + 1]
                              IN IF s1.batch >= s1.batch_size
                                   THEN flush_batch(s1, "select")
                                   ELSE s1
                         ELSE [s EXCEPT !.stream = Tail(@), !.pc = "done",
                                        !.result = "GatewayError"]
                  [] b = "timer" ->
                       IF s.batch # 0 THEN flush_batch(s, "select") ELSE s
                  [] b = "else" -> AfterLoop(s)
  /\ UNCHANGED <<jobs, now, nextId, runs, wk, cl, ev, rl, gd, pf, gw, hs, ar>>

\* the repository answers save_batch (flush_batch goes on) or shutdown (run
\* returns): Ok or an error, which run propagates with `?`
SvRepositoryReply ==
  /\ sv.pc \in {"save_batch", "shutdown"}
  /\ \/ sv' = [sv EXCEPT !.pc = "done", !.result = "RepositoryError",
                         !.shutdown_called = (sv.pc = "shutdown") \/ @]
     \/ sv' = IF sv.pc = "save_batch"
                THEN [sv EXCEPT !.saved = Append(@, sv.batch), !.batch = 0,
                                !.pc = sv.then, !.then = None]
                ELSE [sv EXCEPT !.shutdown_called = TRUE, !.pc = "done",
                                !.result = "Ok"]
  /\ UNCHANGED <<jobs, now, nextId, runs, wk, cl, ev, rl, gd, pf, gw, hs, ar>>

InitIngest ==
  /\ InitCore
  /\ hs = IdleHash
  /\ ar = IdleArchive
  /\ rl = RlInit(DefaultWindows)
  /\ gd = GdCall(<<StartDay, StartDay>>, {})
  /\ pf = NoCall
  /\ gw = [g \in GwClients |-> IdleGateway]
  /\ \E stream \in Streams(MaxStream), batch_size \in 1..MaxBatchSize,
        fused \in BOOLEAN :
       sv = Service(stream, batch_size, fused)

NextIngest ==
  \/ SvRun
  \/ SvSelect
  \/ SvRepositoryReply

\* the executor keeps polling the task: every select! completes (the flush
\* timer ticks for ever) and the repository answers every call
SpecIngest ==
  /\ InitIngest
  /\ [][NextIngest]_vars
  /\ WF_vars(SvRun)
  /\ WF_vars(SvSelect)
  /\ WF_vars(SvRepositoryReply)

\* the stream has yielded its last item while run is in its loop
StreamEnded == sv.pc \in {"select", "save_batch"} /\ sv.stream = << >>

\* C40: streaming ingestion terminates on stream end: once the stream has
\* ended, run eventually returns, and when it returns Ok every tick the
\* stream yielded has been passed to save_batch and shutdown has been
\* called (a repository error ends the run with that error instead)
C40_TerminatesOnStreamEnd ==
  /\ StreamEnded ~> (sv.pc = "done")
  /\ [](sv.result = "Ok" => (sv.batch = 0 /\ sv.shutdown_called))

\* what run does when the stream ends: every buffered tick is passed to
\* save_batch unless the repository fails, but run stays in its loop
C40_BufferedTicksAreSaved ==
  StreamEnded ~> (sv.batch = 0 \/ sv.pc \in {"done", "panicked"})

====
